---- MODULE Spec2Model ----
(***************************************************************************)
(* Model of the test execution orchestrator of ai_labs:                    *)
(*   lib/test-runner.ts  (runTest, runAdHocPrompt, executeRun,             *)
(*                        substituteVariables)                             *)
(*   lib/rate-limit.ts   (checkRateLimit, cleanupRateLimits)               *)
(*   lib/pricing.ts      (calculateCost, estimateTokenCount)               *)
(*   lib/validation.ts   (validateContains, validateOutput)                *)
(*   app/actions/keys.ts (toggleApiKeyActive)                              *)
(*                                                                         *)
(* Every await of the TypeScript code is one step of a process: the code   *)
(* between two awaits runs without interleaving (single-threaded event     *)
(* loop), each prisma operation is atomic in the store.                    *)
(*                                                                         *)
(* Text is a sequence of one-character strings.  An optional value         *)
(* (null / undefined in the source) is None == << >>, a present value v is *)
(* Some(v) == << v >>.  Money is counted in units of 1e-10 USD so that the *)
(* price table stays integral (a rate r USD per 1M tokens is r * 10^4).    *)
(***************************************************************************)
EXTENDS Integers, Sequences, FiniteSets, TLC

None == << >>
Some(v) == << v >>
IsSome(o) == o # << >>
Val(o) == o[1]

\* a local constant: body applied to the value of x, x being evaluated once
Const(x, body(_)) == CHOOSE r \in {body(v) : v \in {x}} : TRUE

Max(a, b) == IF a >= b THEN a ELSE b

(***************************************************************************)
(* Bounds of the model                                                     *)
(***************************************************************************)
MaxBatch == 2      \* batchCount is drawn from 1..MaxBatch (the code allows 1..10)
MaxSel == 2        \* modelConfigs has 1..MaxSel entries
MaxPairs == 4      \* batchCount * |modelConfigs| <= MaxPairs
MaxMinute == 1     \* the clock advances through minutes 0..MaxMinute
MaxProbes == 12    \* direct limiter calls that reach the store, over all users and windows

(***************************************************************************)
(* Program constants                                                       *)
(***************************************************************************)
MAX_RUNS_PER_MINUTE == 10
DRY_RUN_OUTPUT_TOKENS == 500
CHARS_PER_TOKEN == 4
MIN_REDACT_LENGTH == 8
EXCERPT_LENGTH == 50
KEY_HEX_LENGTH == 64
FLAT_RATE == 100000        \* 0.00001 USD per token, in units of 1e-10 USD
MAX_BATCH_COUNT == 10      \* runTestSchema: batchCount is at most 10

Users == {"u1", "u2"}
Procs == {"p1"}
Minutes == 0..MaxMinute

(***************************************************************************)
(* lib/pricing.ts                                                          *)
(***************************************************************************)
P(i, o) == [inputPer1M |-> i, outputPer1M |-> o]

PROVIDER_CONFIGS ==
  [ openai |->
      [ defaultModel |-> "gpt-4o",
        models |-> ( "gpt-4o" :> P(25000, 100000) @@ "gpt-4o-mini" :> P(1500, 6000)
                  @@ "gpt-4-turbo" :> P(100000, 300000) @@ "gpt-4" :> P(300000, 600000)
                  @@ "gpt-3.5-turbo" :> P(5000, 15000) @@ "o1" :> P(150000, 600000)
                  @@ "o1-mini" :> P(30000, 120000) ) ],
    anthropic |->
      [ defaultModel |-> "claude-sonnet-4-20250514",
        models |-> ( "claude-sonnet-4-20250514" :> P(30000, 150000)
                  @@ "claude-opus-4-20250514" :> P(150000, 750000)
                  @@ "claude-3-5-sonnet-20241022" :> P(30000, 150000)
                  @@ "claude-3-5-haiku-20241022" :> P(8000, 40000)
                  @@ "claude-3-opus-20240229" :> P(150000, 750000)
                  @@ "claude-3-sonnet-20240229" :> P(30000, 150000)
                  @@ "claude-3-haiku-20240307" :> P(2500, 12500) ) ],
    google |->
      [ defaultModel |-> "gemini-1.5-pro",
        models |-> ( "gemini-1.5-pro" :> P(12500, 50000) @@ "gemini-1.5-flash" :> P(750, 3000)
                  @@ "gemini-1.5-flash-8b" :> P(375, 1500)
                  @@ "gemini-2.0-flash-exp" :> P(1000, 4000) ) ],
    deepseek |->
      [ defaultModel |-> "deepseek-chat",
        models |-> ( "deepseek-chat" :> P(1400, 2800) @@ "deepseek-reasoner" :> P(5500, 21900) ) ],
    local |->
      [ defaultModel |-> "default",
        models |-> ( "default" :> P(0, 0) ) ] ]

linearCost(pricing, inputTokens, outputTokens) ==
  inputTokens * pricing.inputPer1M + outputTokens * pricing.outputPer1M

\* PROVIDER_CONFIGS and the models of a provider are object literals: object[key]
\* yields the own member of that name and, for these names, the member every
\* object inherits from Object.prototype, which is truthy
ObjectPrototype == {"constructor", "toString", "valueOf", "hasOwnProperty", "__proto__"}

\* the result of arithmetic on undefined
NaN == "NaN"

\* the call ends by throwing a TypeError instead of returning
TypeErrorThrown == [threw |-> "TypeError"]

calculateCost(provider, model, inputTokens, outputTokens) ==
  IF provider \notin DOMAIN PROVIDER_CONFIGS
    THEN IF provider \in ObjectPrototype
           \* providerConfig is the inherited member: it has no models, and
           \* providerConfig.models[model] reads a member of undefined
           THEN TypeErrorThrown
           ELSE [cost |-> (inputTokens + outputTokens) * FLAT_RATE, isEstimated |-> TRUE]
    ELSE LET providerConfig == PROVIDER_CONFIGS[provider] IN
         IF model \notin DOMAIN providerConfig.models
           THEN IF model \in ObjectPrototype
                  \* modelPricing is the inherited member: its inputPer1M and
                  \* outputPer1M are undefined
                  THEN [cost |-> NaN, isEstimated |-> FALSE]
                ELSE IF providerConfig.defaultModel \in DOMAIN providerConfig.models
                  THEN [cost |-> linearCost(providerConfig.models[providerConfig.defaultModel],
                                            inputTokens, outputTokens),
                        isEstimated |-> TRUE]
                  ELSE [cost |-> (inputTokens + outputTokens) * FLAT_RATE, isEstimated |-> TRUE]
           ELSE [cost |-> linearCost(providerConfig.models[model], inputTokens, outputTokens),
                 isEstimated |-> FALSE]

\* Math.ceil(text.length / 4); the empty text gives 0
estimateTokenCount(text) ==
  IF Len(text) = 0 THEN 0 ELSE (Len(text) + CHARS_PER_TOKEN - 1) \div CHARS_PER_TOKEN

(***************************************************************************)
(* lib/test-runner.ts: substituteVariables                                 *)
(* variables is the list Object.entries yields: << <<key, value>>, ... >>  *)
(***************************************************************************)
RECURSIVE SkipWs(_, _)
SkipWs(s, i) == IF i <= Len(s) /\ s[i] = " " THEN SkipWs(s, i + 1) ELSE i

HasAt(s, i, w) ==
  /\ i + Len(w) - 1 <= Len(s)
  /\ \A k \in 1..Len(w) : s[i + k - 1] = w[k]

\* new RegExp of a text that quotes the key as it is: the characters of the
\* key are read as a pattern (keys are texts of letters, digits and "."; a
\* "." stands for any character)
KeyAt(s, i, key) ==
  /\ i + Len(key) - 1 <= Len(s)
  /\ \A k \in 1..Len(key) : key[k] = "." \/ s[i + k - 1] = key[k]

\* the regex \{\{\s*key\s*\}\} tried at position i: 0 when it does not match,
\* otherwise the position right after the match.  The first \s* takes as many
\* blanks as it can and gives them back one by one while the rest fails
MatchAt(s, i, key) ==
  IF ~HasAt(s, i, <<"{", "{">>) THEN 0
  ELSE LET starts == {a \in (i + 2)..SkipWs(s, i + 2) :
                        /\ KeyAt(s, a, key)
                        /\ HasAt(s, SkipWs(s, a + Len(key)), <<"}", "}">>)}
       IN IF starts = {} THEN 0
          ELSE LET a == CHOOSE x \in starts : \A y \in starts : x >= y
               IN SkipWs(s, a + Len(key)) + 2

\* the text String.replace inserts for a match: in the value "$&" stands for
\* the matched text and "$$" for one "$"
RECURSIVE Expand(_, _, _)
Expand(value, k, matched) ==
  IF k > Len(value) THEN << >>
  ELSE IF HasAt(value, k, <<"$", "&">>) THEN matched \o Expand(value, k + 2, matched)
  ELSE IF HasAt(value, k, <<"$", "$">>) THEN <<"$">> \o Expand(value, k + 2, matched)
  ELSE <<value[k]>> \o Expand(value, k + 1, matched)

RECURSIVE ReplaceAll(_, _, _, _)
ReplaceAll(s, i, key, value) ==
  IF i > Len(s) THEN << >>
  ELSE LET e == MatchAt(s, i, key) IN
       IF e # 0 THEN Expand(value, 1, SubSeq(s, i, e - 1)) \o ReplaceAll(s, e, key, value)
       ELSE <<s[i]>> \o ReplaceAll(s, i + 1, key, value)

\* new RegExp throws a SyntaxError on a key that is no pattern: of the keys
\* modelled, those with a parenthesis that is not closed
ValidPattern(key) == \A k \in 1..Len(key) : key[k] # "("

RECURSIVE substituteFrom(_, _, _)
substituteFrom(result, variables, n) ==
  IF n > Len(variables) THEN result
  ELSE substituteFrom(ReplaceAll(result, 1, variables[n][1], variables[n][2]), variables, n + 1)

substituteVariables(template, variables) == substituteFrom(template, variables, 1)

Keys(vs) == {vs[n][1] : n \in 1..Len(vs)}
Lookup(vs, k) == vs[CHOOSE n \in 1..Len(vs) : vs[n][1] = k][2]

\* { ...testVariables, ...variables }: a key keeps the position of its first
\* insertion and takes the value of its last one
mergeVariables(testVariables, variables) ==
  [n \in 1..Len(testVariables) |->
     IF testVariables[n][1] \in Keys(variables)
       THEN <<testVariables[n][1], Lookup(variables, testVariables[n][1])>>
       ELSE testVariables[n]]
  \o SelectSeq(variables, LAMBDA kv : kv[1] \notin Keys(testVariables))

(***************************************************************************)
(* lib/validation.ts                                                       *)
(***************************************************************************)
Includes(text, w) == \E i \in 1..(Len(text) + 1) : HasAt(text, i, w)

\* expectedContains.slice(0, 50) followed by '...' when something was cut
Excerpt(text) ==
  IF Len(text) > EXCERPT_LENGTH THEN SubSeq(text, 1, EXCERPT_LENGTH) \o << "..." >> ELSE text

validateContains(output, expectedContains) ==
  LET passed == Includes(output, expectedContains) IN
  [passed |-> passed,
   notes |-> IF passed THEN << "Output contains expected string" >>
             ELSE << "Output does not contain: \"" >> \o Excerpt(expectedContains) \o << "\"" >>]

(***************************************************************************)
(* JSON.parse, for the JSON texts made of numbers without sign, fraction   *)
(* or exponent, strings without escapes, and objects.  A value is          *)
(* [t |-> "number" | "string" | "object", v |-> ...]; the v of an object   *)
(* is the list of its members << <<key, value>>, ... >>.                   *)
(***************************************************************************)
JsonDigits == {"0", "1", "2", "3", "4", "5", "6", "7", "8", "9"}
JsonWhitespace == {" ", "\n"}

RECURSIVE SkipJsonWs(_, _)
SkipJsonWs(s, i) ==
  IF i <= Len(s) /\ s[i] \in JsonWhitespace THEN SkipJsonWs(s, i + 1) ELSE i

RECURSIVE DigitsEnd(_, _)
DigitsEnd(s, i) == IF i <= Len(s) /\ s[i] \in JsonDigits THEN DigitsEnd(s, i + 1) ELSE i

\* the position of the first occurrence of w in s at or after from, 0 if none
FirstIndexOf(s, w, from) ==
  LET at == {i \in from..Len(s) : HasAt(s, i, w)} IN
  IF at = {} THEN 0 ELSE CHOOSE i \in at : \A k \in at : i <= k

LastIndexOf(s, w) ==
  LET at == {i \in 1..Len(s) : HasAt(s, i, w)} IN
  IF at = {} THEN 0 ELSE CHOOSE i \in at : \A k \in at : i >= k

NoParse == [ok |-> FALSE, val |-> << >>, next |-> 0]
Parsed(val, next) == [ok |-> TRUE, val |-> val, next |-> next]

\* parse(s, i, members): with members = None, one value starting at or after
\* position i; with members = Some(list), the rest of an object from the key
\* at position i on, up to its closing brace, list being the members read so
\* far.  next is the position after what was read
RECURSIVE parse(_, _, _)
parse(s, i0, members) ==
  IF members = None
    THEN LET i == SkipJsonWs(s, i0) IN
         IF i > Len(s) THEN NoParse
         ELSE IF s[i] = "0" THEN Parsed([t |-> "number", v |-> <<"0">>], i + 1)
         ELSE IF s[i] \in JsonDigits
           THEN LET e == DigitsEnd(s, i) IN
                Parsed([t |-> "number", v |-> SubSeq(s, i, e - 1)], e)
         ELSE IF s[i] = "\""
           THEN LET e == FirstIndexOf(s, <<"\"">>, i + 1) IN
                IF e = 0 THEN NoParse
                ELSE Parsed([t |-> "string", v |-> SubSeq(s, i + 1, e - 1)], e + 1)
         ELSE IF s[i] = "{"
           THEN LET j == SkipJsonWs(s, i + 1) IN
                IF j <= Len(s) /\ s[j] = "}" THEN Parsed([t |-> "object", v |-> << >>], j + 1)
                ELSE parse(s, j, Some(<< >>))
         ELSE NoParse
    ELSE LET i == i0 IN
         IF i > Len(s) \/ s[i] # "\"" THEN NoParse
         ELSE LET e == FirstIndexOf(s, <<"\"">>, i + 1) IN
              IF e = 0 THEN NoParse
              ELSE LET colon == SkipJsonWs(s, e + 1) IN
                   IF colon > Len(s) \/ s[colon] # ":" THEN NoParse
                   ELSE Const(parse(s, colon + 1, None), LAMBDA value :
                        IF ~value.ok THEN NoParse
                        ELSE LET d == SkipJsonWs(s, value.next)
                                 more == Append(Val(members),
                                                <<SubSeq(s, i + 1, e - 1), value.val>>)
                             IN IF d > Len(s) THEN NoParse
                                ELSE IF s[d] = ","
                                  THEN parse(s, SkipJsonWs(s, d + 1), Some(more))
                                ELSE IF s[d] = "}"
                                  THEN Parsed([t |-> "object", v |-> more], d + 1)
                                ELSE NoParse)

\* JSON.parse(text): the value, or nothing when it throws a SyntaxError
JSON_parse(text) ==
  Const(parse(text, 1, None), LAMBDA r :
    IF r.ok /\ SkipJsonWs(text, r.next) > Len(text) THEN Some(r.val) ELSE None)

\* object[key]: the value of the last member of that name
Member(object, key) ==
  LET at == {n \in 1..Len(object.v) : object.v[n][1] = key} IN
  IF at = {} THEN None ELSE Some(object.v[CHOOSE n \in at : \A k \in at : n >= k][2])

(***************************************************************************)
(* Ajv, for schemas whose only keyword is "type" with a single type name   *)
(***************************************************************************)
JsonTypeNames ==
  { <<"n", "u", "m", "b", "e", "r">>, <<"i", "n", "t", "e", "g", "e", "r">>,
    <<"s", "t", "r", "i", "n", "g">>, <<"o", "b", "j", "e", "c", "t">>,
    <<"a", "r", "r", "a", "y">>, <<"b", "o", "o", "l", "e", "a", "n">>,
    <<"n", "u", "l", "l">> }

\* ajv.compile(schema): ok is FALSE when it throws (the schema is not an
\* object, or its "type" is not one of the type names)
ajvCompile(schema) ==
  IF schema.t # "object" THEN [ok |-> FALSE, type |-> None]
  ELSE LET type == Member(schema, <<"t", "y", "p", "e">>) IN
       IF ~IsSome(type) THEN [ok |-> TRUE, type |-> None]
       ELSE IF Val(type).t # "string" THEN [ok |-> FALSE, type |-> None]
       ELSE IF Val(type).v \notin JsonTypeNames THEN [ok |-> FALSE, type |-> None]
       ELSE [ok |-> TRUE, type |-> Some(Val(type).v)]

\* validate(data) of the compiled schema
ajvValid(validate, data) ==
  IF ~IsSome(validate.type) THEN TRUE
  ELSE LET type == Val(validate.type) IN
       IF type \in {<<"n", "u", "m", "b", "e", "r">>, <<"i", "n", "t", "e", "g", "e", "r">>}
         THEN data.t = "number"
       ELSE IF type = <<"s", "t", "r", "i", "n", "g">> THEN data.t = "string"
       ELSE IF type = <<"o", "b", "j", "e", "c", "t">> THEN data.t = "object"
       ELSE FALSE

\* the grave accent, and the fence of three of them that opens and closes a
\* block of code in markdown
GRAVE == "grave accent"
FENCE == <<GRAVE, GRAVE, GRAVE>>

\* output.match(fence (?:json)?\s*([\s\S]*?) fence) || output.match(/(\{[\s\S]*\})/):
\* the captured text, or nothing when neither expression matches
jsonMatch(output) ==
  LET open == FirstIndexOf(output, FENCE, 1)
      body == IF HasAt(output, open + 3, <<"j", "s", "o", "n">>) THEN open + 7 ELSE open + 3
      close == IF open = 0 THEN 0 ELSE FirstIndexOf(output, FENCE, body)
      first == FirstIndexOf(output, <<"{">>, 1)
      last == LastIndexOf(output, <<"}">>)
  IN IF close # 0 THEN Some(SubSeq(output, SkipJsonWs(output, body), close - 1))
     ELSE IF first # 0 /\ last > first THEN Some(SubSeq(output, first, last))
     ELSE None

\* outputJson of lines 33-47: the text the expressions captured is parsed, and
\* the whole output when there is none or when it does not parse
parseOutput(output) ==
  Const(jsonMatch(output), LAMBDA matched :
    IF ~IsSome(matched) THEN JSON_parse(output)
    ELSE Const(JSON_parse(Val(matched)), LAMBDA inner :
           IF IsSome(inner) THEN inner ELSE JSON_parse(output)))

\* lines 53-66: the verdict of the compiled schema on the parsed output
schemaVerdict(validate, outputJson) ==
  IF ajvValid(validate, outputJson)
    THEN [passed |-> TRUE, notes |-> << "Output matches JSON schema" >>]
    ELSE [passed |-> FALSE,
          notes |-> << "Schema validation failed: ", " must be " >> \o Val(validate.type)]

\* variant: the catch block reports the output as valid
validateJsonSchema_CatchPasses(output, schemaJson) ==
  Const(parseOutput(output), LAMBDA outputJson :
    Const(JSON_parse(schemaJson), LAMBDA schema :
      IF ~IsSome(outputJson) \/ ~IsSome(schema)
        THEN [passed |-> TRUE, notes |-> << "Output matches JSON schema" >>]
      ELSE Const(ajvCompile(Val(schema)), LAMBDA validate :
             IF ~validate.ok
               THEN [passed |-> TRUE, notes |-> << "Output matches JSON schema" >>]
             ELSE schemaVerdict(validate, Val(outputJson)))))

\* validateJsonSchema, lines 30-76: the whole body is one try block; whatever
\* JSON.parse or ajv.compile throws ends in the catch block, which returns a
\* failed result (the trim() before JSON.parse removes what JSON.parse skips)
validateJsonSchema(output, schemaJson) ==
  Const(parseOutput(output), LAMBDA outputJson :
    Const(JSON_parse(schemaJson), LAMBDA schema :
      IF ~IsSome(outputJson) \/ ~IsSome(schema)
        THEN [passed |-> FALSE, notes |-> << "JSON validation error: ", "Unexpected token" >>]
      ELSE Const(ajvCompile(Val(schema)), LAMBDA validate :
             IF ~validate.ok
               THEN [passed |-> FALSE,
                     notes |-> << "JSON validation error: ", "schema is invalid" >>]
             ELSE schemaVerdict(validate, Val(outputJson)))))

\* a rule is applied when its text is neither null nor empty
Configured(rule) == IsSome(rule) /\ Len(Val(rule)) > 0

\* results.map((r) => r.notes).join('; ')
RECURSIVE JoinNotes(_)
JoinNotes(results) ==
  IF Len(results) = 0 THEN << >>
  ELSE IF Len(results) = 1 THEN results[1].notes
  ELSE results[1].notes \o << "; " >> \o JoinNotes(Tail(results))

\* validateOutput, lines 81-108
validateOutput(output, expectedContains, jsonSchema) ==
  IF ~Configured(expectedContains) /\ ~Configured(jsonSchema) THEN None
  ELSE Const((IF Configured(expectedContains)
                 THEN << validateContains(output, Val(expectedContains)) >> ELSE << >>)
              \o (IF Configured(jsonSchema)
                    THEN << validateJsonSchema(output, Val(jsonSchema)) >> ELSE << >>),
             LAMBDA results :
               Some([passed |-> \A n \in 1..Len(results) : results[n].passed,
                     notes |-> JoinNotes(results)]))

(***************************************************************************)
(* lib/encryption.ts: redactApiKey                                         *)
(* A message is a text whose elements are either single characters or the  *)
(* literal pieces of the program's own messages (one element each).        *)
(***************************************************************************)
REDACTED == <<"[", "R", "E", "D", "A", "C", "T", "E", "D", "]">>

\* text.replace(regex, '[REDACTED]') with the global flag: the matches are
\* taken left to right, the scan resuming after each match
RECURSIVE replaceKey(_, _, _)
replaceKey(text, i, apiKey) ==
  IF i > Len(text) THEN << >>
  ELSE IF HasAt(text, i, apiKey)
    THEN REDACTED \o replaceKey(text, i + Len(apiKey), apiKey)
    ELSE <<text[i]>> \o replaceKey(text, i + 1, apiKey)

redactApiKey(text, apiKey) ==
  IF Len(apiKey) = 0 \/ Len(apiKey) < MIN_REDACT_LENGTH THEN text
  ELSE replaceKey(text, 1, apiKey)

(***************************************************************************)
(* lib/rate-limit.ts                                                       *)
(* rateLimit maps <<userId, windowKey>> to the count of its row; a key     *)
(* outside the domain has no row.  ok = FALSE is the upsert rejecting      *)
(* (storage failure), which the catch block turns into "allowed".          *)
(***************************************************************************)
\* variant: the update branch of the upsert leaves the count as it is
upsertRateLimit_NoIncrement(table, key) ==
  IF key \in DOMAIN table THEN table ELSE table @@ (key :> 1)

\* variant: the upsert always takes its create branch
upsertRateLimit_Recreates(table, key) ==
  [k \in DOMAIN table \cup {key} |-> IF k = key THEN 1 ELSE table[k]]

upsertRateLimit(table, key) ==
  IF key \in DOMAIN table THEN [table EXCEPT ![key] = @ + 1] ELSE table @@ (key :> 1)

\* variant: "<" for "<=" in the comparison with MAX_RUNS_PER_MINUTE
rateVerdict_Strict(count) ==
  [allowed |-> count < MAX_RUNS_PER_MINUTE,
   remaining |-> Max(0, MAX_RUNS_PER_MINUTE - count)]

\* variant: one run more than MAX_RUNS_PER_MINUTE is let through
rateVerdict_OneMore(count) ==
  [allowed |-> count <= MAX_RUNS_PER_MINUTE + 1,
   remaining |-> Max(0, MAX_RUNS_PER_MINUTE - count)]

rateVerdict(count) ==
  [allowed |-> count <= MAX_RUNS_PER_MINUTE,
   remaining |-> Max(0, MAX_RUNS_PER_MINUTE - count)]

\* variant: the catch block answers "not allowed"
checkRateLimit_FailClosed(table, userId, windowKey, ok) ==
  IF ok
    THEN LET t == upsertRateLimit(table, <<userId, windowKey>>) IN
         [table |-> t, result |-> rateVerdict(t[<<userId, windowKey>>])]
    ELSE [table |-> table,
          result |-> [allowed |-> FALSE, remaining |-> 0]]

checkRateLimit(table, userId, windowKey, ok) ==
  IF ok
    THEN LET t == upsertRateLimit(table, <<userId, windowKey>>) IN
         [table |-> t, result |-> rateVerdict(t[<<userId, windowKey>>])]
    ELSE [table |-> table,
          result |-> [allowed |-> TRUE, remaining |-> MAX_RUNS_PER_MINUTE]]

(***************************************************************************)
(* The stored data the calls work on                                       *)
(***************************************************************************)
\* the texts of the tests that ask for JSON: schemas for an object and for a
\* number, a schema text cut short (updateTest stores the text unparsed), and
\* a schema whose type is no type name
JsonPrompt == <<"j", "s", "o", "n", "?">>
SCHEMA_OBJECT == <<"{", "\"", "t", "y", "p", "e", "\"", ":", "\"", "o", "b", "j", "e", "c", "t", "\"", "}">>
SCHEMA_NUMBER == <<"{", "\"", "t", "y", "p", "e", "\"", ":", " ", "\"", "n", "u", "m", "b", "e", "r", "\"", "}">>
SCHEMA_CUT_SHORT == <<"{", "\"", "t", "y", "p", "e", "\"", ":">>
SCHEMA_BAD_TYPE == <<"{", "\"", "t", "y", "p", "e", "\"", ":", "\"", "o", "b", "j", "c", "t", "\"", "}">>

\* a stored variables text that is not JSON (updateTest, tests.ts lines
\* 104-131, stores the text of the form as it comes)
Unparsable == "not JSON"

\* the prompt of the test whose replies come with every shape of usage data
UsagePrompt == <<"u", "s", "a", "g", "e", "?">>

ValidationTest(expectedContains, jsonSchema) ==
  [userId |-> "u1", basePrompt |-> JsonPrompt, variables |-> << >>,
   expectedContains |-> expectedContains, jsonSchema |-> jsonSchema]

\* prisma.test: the stored tests; "tx" is an id with no row
TestTable ==
  ( "t1" :> [userId |-> "u1",
             basePrompt |-> <<"S", "a", "y", " ", "{", "{", " ", "n", "}", "}">>,
             variables |-> << << <<"n">>, <<"7">> >> >>,
             expectedContains |-> Some(<<"4", "2">>),
             jsonSchema |-> None]
 @@ "t2" :> [userId |-> "u2",
             basePrompt |-> <<"h", "i">>,
             variables |-> << >>,
             expectedContains |-> None,
             jsonSchema |-> None]
 @@ "t3" :> ValidationTest(None, Some(SCHEMA_OBJECT))
 @@ "t4" :> ValidationTest(Some(<<"4", "2">>), Some(SCHEMA_NUMBER))
 @@ "t5" :> ValidationTest(None, Some(SCHEMA_CUT_SHORT))
 @@ "t6" :> ValidationTest(None, Some(SCHEMA_BAD_TYPE))
 @@ "t7" :> ValidationTest(None, None)
 @@ "t8" :> [userId |-> "u1", basePrompt |-> UsagePrompt, variables |-> << >>,
             expectedContains |-> None, jsonSchema |-> None]
 @@ "t9" :> [userId |-> "u1", basePrompt |-> <<"h", "i">>, variables |-> Unparsable,
             expectedContains |-> None, jsonSchema |-> None] )

\* the ids the requests of Spec name
TestIds == {"t1", "t2", "tx"}

\* the ids of the tests of u1 that ask for JSON
ValidationTestIds == {"t3", "t4", "t5", "t6", "t7"}

\* prisma.apiKey: k1, k2 and k3 belong to u1 (u2 stored no key); the stored
\* ciphertext of k2 does not authenticate (decryptApiKey throws on it); "kx"
\* has no row
KeyOwner == ( "k1" :> "u1" @@ "k2" :> "u1" @@ "k3" :> "u1" )
KeyIntact == ( "k1" :> TRUE @@ "k2" :> FALSE @@ "k3" :> TRUE )

\* what decryptApiKey yields for the keys that decrypt: k1 is a key of 8
\* characters, k3 one of 3 (createKeySchema accepts any non-empty key)
KeySecret ==
  ( "k1" :> <<"s", "k", "-", "l", "i", "v", "e", "1">> @@ "k3" :> <<"a", "b", "c">> )
KeyIds == DOMAIN KeyOwner

\* providers/index.ts initAdapters: the registered adapters
Adapters == {"openai", "anthropic", "google", "deepseek", "local"}
getAdapter(providerName) == IF providerName \in Adapters THEN Some(providerName) ELSE None

MC(provider, model, apiKeyId) == [provider |-> provider, model |-> model, apiKeyId |-> apiKeyId]
ModelConfigs ==
  { MC("openai", "gpt-4o", "k1"),          \* registered provider, listed model
    MC("acme", "acme-1", "k1"),            \* no adapter registered
    MC("local", "llama3", "k2"),           \* key whose ciphertext fails to decrypt
    MC("openai", "gpt-4o-mini", "kx") }    \* key id with no row

SelectionLists ==
  UNION { [1..n -> ModelConfigs] : n \in 1..MaxSel }

VariableOverrides == { << >>, << << <<"n">>, <<"4", "2">> >> >> }

AdHocPrompts == { <<"p", "i", "n", "g", "?">> }

\* what adapter.complete can resolve to / reject with
Responses ==
  { [output |-> <<"4", "2">>, inputTokens |-> Some(9), outputTokens |-> Some(2),
     tokensEstimated |-> FALSE],
    [output |-> <<"n", "o", "p", "e", "!">>, inputTokens |-> None, outputTokens |-> None,
     tokensEstimated |-> TRUE] }

\* the replies to the prompt that asks for JSON
JSON_OBJECT == <<"{", "\"", "n", "\"", ":", "4", "2", "}">>
JSON_NUMBER == <<"4", "2">>
JSON_FENCED == <<GRAVE, GRAVE, GRAVE, "j", "s", "o", "n", "\n", "{", "\"", "n", "\"", ":", " ", "4", "2", "}", "\n", GRAVE, GRAVE, GRAVE>>
JSON_IN_PROSE == <<"S", "u", "r", "e", ":", " ", "{", "\"", "n", "\"", ":", "4", "2", "}", " ", "o", "k">>
JSON_UNQUOTED == <<"{", "n", ":", "4", "2", "}">>
NOT_JSON == <<"n", "o", "p", "e", "!">>

JsonResponses ==
  { [output |-> output, inputTokens |-> Some(9), outputTokens |-> Some(2),
     tokensEstimated |-> FALSE] :
      output \in {JSON_OBJECT, JSON_NUMBER, JSON_FENCED, JSON_IN_PROSE, JSON_UNQUOTED, NOT_JSON} }

\* the usage member of the vendor's reply: absent, or an object in which each
\* count is absent or a number (LocalUsage, index.ts lines 319-323, declares
\* every count optional)
VendorCounts == {None, Some(0), Some(9)}
VendorUsages ==
  {None} \cup {Some([prompt_tokens |-> a, completion_tokens |-> b]) : a, b \in VendorCounts}

\* the ProviderResponse an adapter builds from the reply: index.ts lines
\* 285-292 (OpenAIAdapter; anthropic.ts 220-229, google.ts 203-210 and
\* deepseek.ts 176-183 alike) and lines 526-535 (LocalAdapter, for which usage
\* counts when one of the two numbers is truthy)
providerResponse(provider, output, usage) ==
  LET prompt_tokens == IF IsSome(usage) THEN Val(usage).prompt_tokens ELSE None
      completion_tokens == IF IsSome(usage) THEN Val(usage).completion_tokens ELSE None
      hasUsage == \/ IsSome(prompt_tokens) /\ Val(prompt_tokens) # 0
                  \/ IsSome(completion_tokens) /\ Val(completion_tokens) # 0
  IN [output |-> output, inputTokens |-> prompt_tokens, outputTokens |-> completion_tokens,
      tokensEstimated |-> IF provider = "local" THEN ~hasUsage ELSE ~IsSome(usage)]

UsageOutputs == { << >>, <<"n", "o", "p", "e", "!">> }

RepliesTo(prompt) == IF prompt = JsonPrompt THEN JsonResponses ELSE Responses

\* what adapter.complete of the provider can resolve to, given the prompt
RepliesOf(provider, prompt) ==
  IF prompt = UsagePrompt
    THEN {providerResponse(provider, output, usage) :
            output \in UsageOutputs, usage \in VendorUsages}
    ELSE RepliesTo(prompt)

\* what the try block of adapter.complete throws: the message of the vendor's
\* error body, which may quote the key it was sent, or the HTTP status line
VendorErrors(apiKey) ==
  { << "HTTP 500: upstream error" >>,
    << "Incorrect API key provided: " >> \o apiKey }

\* variant: the catch block rethrows the message as it came
adapterError_Raw(message, apiKey) == message

\* the error of a response that is not ok is thrown redacted inside the try
\* block (line 275); the catch block redacts the message of whatever was
\* thrown and rethrows it (lines 293-295)
adapterError(message, apiKey) == redactApiKey(redactApiKey(message, apiKey), apiKey)

AdapterErrors ==
  { adapterError(m, KeySecret[k]) : m \in UNION {VendorErrors(KeySecret[kk]) : kk \in DOMAIN KeySecret},
                                     k \in DOMAIN KeySecret }

MSG_RATE_LIMIT == << "Rate limit exceeded. Please wait a minute before running more tests." >>
MSG_RATE_LIMIT_AFTER == << "Rate limit exceeded after N runs. Results so far have been saved." >>
MSG_TEST_NOT_FOUND == << "Test not found" >>
MSG_KEY_NOT_FOUND == << "API key not found or inactive" >>
MSG_DECRYPT == << "Unsupported state or unable to authenticate data" >>
MSG_NO_PROVIDER == << "Provider not found" >>
MSG_TYPE_ERROR == << "Cannot read properties of undefined" >>
MSG_SYNTAX_ERROR == << "Unexpected token in JSON" >>
MSG_INVALID_REGEX == << "Invalid regular expression" >>

(***************************************************************************)
(* State                                                                   *)
(***************************************************************************)
VARIABLES
  apiKeyActive,  \* prisma.apiKey.isActive, per key id
  rateLimit,     \* prisma.rateLimit: <<userId, windowKey>> -> count
  now,           \* the clock, in minutes (windowKey = the current minute)
  runs,          \* prisma.run: the k-th element is the record with id k
  call,          \* per process: the orchestration call it is executing
  probe,         \* per user: the direct checkRateLimit calls of the current window
  admitted,      \* history: <<userId, windowKey>> -> the adapter calls started on
                 \* an "allowed" that checkRateLimit computed from the stored count
                 \* of that window
  eval           \* the library function being applied on its own, with its
                 \* arguments and, once it returned, its result

vars == <<apiKeyActive, rateLimit, now, runs, call, probe, admitted, eval>>

NoOpts ==
  [userId |-> "", testId |-> "", modelConfigs |-> << >>, variables |-> << >>,
   batchCount |-> 0, isDryRun |-> FALSE]

\* a process that executes no call; also the frame every call starts from
IdleCall ==
  [pc |-> "idle", kind |-> "none", opts |-> NoOpts,
   prompt |-> << >>, mergedVariables |-> << >>, batchId |-> None,
   expectedContains |-> None, jsonSchema |-> None,
   apiKeyMap |-> {}, i |-> 0, j |-> 1, batchIndex |-> 0, results |-> << >>,
   runId |-> 0, response |-> None, errorMessage |-> << >>, check |-> None,
   keyLookups |-> 0, decrypts |-> 0, adapterCalls |-> 0, outcome |-> None,
   rerunOf |-> None, vendorError |-> None]

\* Date.now() differences and new Date() stamps: the model records that a
\* latency or a completion time was stored, not its value
Measured == "measured"

\* A run id is a text: the id of the k-th record is the one-element text <<k>>,
\* and '' (no record persisted) is the empty text
NoId == << >>
IdOf(k) == << k >>

\* the RunResult objects the runner builds
FailedNoRecord(mc) ==
  [id |-> NoId, status |-> "failed", provider |-> mc.provider, model |-> mc.model,
   output |-> None, errorMessage |-> Some(MSG_KEY_NOT_FOUND), latencyMs |-> None,
   inputTokens |-> None, outputTokens |-> None, estimatedCost |-> None,
   passed |-> None, validationNotes |-> None]

\* variant: the record is created in status running
NewRun_Running(userId, testId, mc, prompt, inputVariables, batchId, batchIndex, isDryRun) ==
  [userId |-> userId, testId |-> testId, apiKeyId |-> mc.apiKeyId,
   provider |-> mc.provider, model |-> mc.model, prompt |-> prompt,
   inputVariables |-> inputVariables, status |-> "running",
   batchId |-> batchId, batchIndex |-> batchIndex, isDryRun |-> isDryRun,
   output |-> None, errorMessage |-> None, latencyMs |-> None,
   inputTokens |-> None, outputTokens |-> None, totalTokens |-> None,
   tokensEstimated |-> None, estimatedCost |-> None, costEstimated |-> None,
   passed |-> None, validationNotes |-> None, completedAt |-> None]

NewRun(userId, testId, mc, prompt, inputVariables, batchId, batchIndex, isDryRun) ==
  [userId |-> userId, testId |-> testId, apiKeyId |-> mc.apiKeyId,
   provider |-> mc.provider, model |-> mc.model, prompt |-> prompt,
   inputVariables |-> inputVariables, status |-> "pending",
   batchId |-> batchId, batchIndex |-> batchIndex, isDryRun |-> isDryRun,
   output |-> None, errorMessage |-> None, latencyMs |-> None,
   inputTokens |-> None, outputTokens |-> None, totalTokens |-> None,
   tokensEstimated |-> None, estimatedCost |-> None, costEstimated |-> None,
   passed |-> None, validationNotes |-> None, completedAt |-> None]

NoProbe == [u \in Users |-> [calls |-> 0, last |-> None]]

\* no library function is being applied on its own
NoEval == [fn |-> "none"]

NoneAdmitted == [key \in Users \X Minutes |-> 0]

\* the rows of the current window after earlier requests of this minute brought
\* every user's counter to n (runTest calls naming an unknown test do exactly
\* that and leave nothing else behind)
WindowAt(n) ==
  IF n = 0 THEN << >> ELSE [key \in Users \X {0} |-> n]

\* the counters the orchestrator is started on: an empty window, one two runs
\* short of the limit, one at the limit
InitialCounts == {0, MAX_RUNS_PER_MINUTE - 2, MAX_RUNS_PER_MINUTE}

\* One orchestration call per process, started on a store in which earlier
\* requests left any of the keys enabled or disabled and the rate window at one
\* of InitialCounts
Init ==
  /\ apiKeyActive \in {f \in [KeyIds -> BOOLEAN] : f["k3"]}
  /\ \E n \in InitialCounts : rateLimit = WindowAt(n)
  /\ now = 0
  /\ runs = << >>
  /\ call = [p \in Procs |-> IdleCall]
  /\ probe = NoProbe
  /\ admitted = NoneAdmitted
  /\ eval = NoEval

(***************************************************************************)
(* lib/test-runner.ts: the loop of runTest                                 *)
(***************************************************************************)
Set(p, c) == call' = [call EXCEPT ![p] = c]

CurrentConfig(c) == c.opts.modelConfigs[c.j]

\* variant: batchIndex starts again at 0 with every repetition
NextPair_ResetsIndex(c) ==
  IF c.j < Len(c.opts.modelConfigs)
    THEN [c EXCEPT !.j = @ + 1]
    ELSE [c EXCEPT !.i = @ + 1, !.j = 1, !.batchIndex = 0]

\* the next (repetition, selection) pair: the inner for over modelConfigs,
\* then the outer for over i
NextPair(c) ==
  IF c.j < Len(c.opts.modelConfigs)
    THEN [c EXCEPT !.j = @ + 1]
    ELSE [c EXCEPT !.i = @ + 1, !.j = 1]

\* return of the call: the promise resolves with value
Return(c, value) ==
  [c EXCEPT !.pc = "returned", !.runId = 0, !.response = None, !.errorMessage = << >>,
            !.vendorError = None,
            !.outcome = Some([ok |-> TRUE, value |-> value, error |-> << >>, n |-> 0])]

\* throw out of the call: the promise rejects with Error(message); n is the
\* number the message of line 261 interpolates.  The caller receives the error
\* alone: c.results stays in the frame as the value the local had at the throw
Throw(c, message, n) ==
  [c EXCEPT !.pc = "threw",
            !.outcome = Some([ok |-> FALSE, value |-> << >>, error |-> message, n |-> n])]

\* results.push(result), then on to the next pair or to "return results";
\* runAdHocPrompt returns the result of its single run
Push(c, result) ==
  IF c.kind = "adhoc" THEN Return(c, result)
  ELSE LET d == NextPair([c EXCEPT !.results = Append(@, result),
                                   !.runId = 0,
                                   !.response = None, !.errorMessage = << >>,
                                   !.vendorError = None])
       IN IF d.i < d.opts.batchCount THEN [d EXCEPT !.pc = "loop"]
          ELSE Return(d, d.results)

RunOptions ==
  { o \in [userId : Users, testId : TestIds, modelConfigs : SelectionLists,
           variables : VariableOverrides, batchCount : 1..MaxBatch, isDryRun : BOOLEAN] :
      o.batchCount * Len(o.modelConfigs) <= MaxPairs }

CanStart(p) == call[p].pc = "idle"

\* the value a rate check left in the local rateCheck (at = "admission") or
\* check (at = "recheck"); stored tells whether the upsert behind it reached
\* the store (the try block returned) or rejected (the catch block returned),
\* windowKey is the minute the check computed its key from
Checked(at, result, ok) ==
  [at |-> at, allowed |-> result.allowed, remaining |-> result.remaining, stored |-> ok,
   windowKey |-> now]

\* variant: the verdict of the admission check is ignored
Admission_Proceeds(c, onward) == [c EXCEPT !.pc = onward]

\* "if (!rateCheck.allowed) throw": runTest lines 216-218, runAdHocPrompt
\* lines 328-330; an admitted call goes on to its first query
Admission(c, onward) ==
  IF ~Val(c.check).allowed THEN Throw(c, MSG_RATE_LIMIT, 0) ELSE [c EXCEPT !.pc = onward]

\* runTest(o), lines 211-223: the admission check, then findUnique is issued
\* origin is None for a call made by executeTestRun and Some(runId) for one
\* made by rerunFromRun(runId)
RunTestCall(p, o, origin) ==
  /\ CanStart(p)
  /\ \E ok \in BOOLEAN :
       LET rateCheck == checkRateLimit(rateLimit, o.userId, now, ok)
           c == [IdleCall EXCEPT !.kind = "runTest", !.opts = o, !.rerunOf = origin,
                                 !.check = Some(Checked("admission", rateCheck.result, ok))]
       IN /\ rateLimit' = rateCheck.table
          /\ Set(p, Admission(c, "fetchTest"))
  /\ UNCHANGED <<apiKeyActive, now, runs, probe, admitted, eval>>

RunTestStart(p) == \E o \in RunOptions : RunTestCall(p, o, None)

\* variant: the test is looked up by id alone
TestFound_AnyOwner(testId, userId) == testId \in DOMAIN TestTable

\* runTest, lines 221-225: findUnique by id, then "!test || test.userId !==
\* userId" decides whether the call goes on
TestFound(testId, userId) ==
  testId \in DOMAIN TestTable /\ TestTable[testId].userId = userId

\* runTest, lines 221-247: the test is resolved, the variables merged and
\* substituted, the batch id drawn; then findMany is issued
FetchTest(p) ==
  /\ call[p].pc = "fetchTest"
  /\ LET c == call[p]
         o == c.opts
     IN IF ~TestFound(o.testId, o.userId)
          THEN Set(p, Throw(c, MSG_TEST_NOT_FOUND, 0))
          ELSE IF TestTable[o.testId].variables = Unparsable
            \* JSON.parse of line 230 throws
            THEN Set(p, Throw(c, MSG_SYNTAX_ERROR, 0))
          ELSE LET test == TestTable[o.testId]
                   merged == mergeVariables(test.variables, o.variables)
               IN IF \E n \in 1..Len(merged) : ~ValidPattern(merged[n][1])
                    \* new RegExp of line 50 throws
                    THEN Set(p, Throw(c, MSG_INVALID_REGEX, 0))
                  ELSE
                  Set(p, [c EXCEPT !.pc = "fetchKeys",
                                   !.mergedVariables = merged,
                                   !.prompt = substituteVariables(test.basePrompt, merged),
                                   !.batchId = Some(p),
                                   !.expectedContains = test.expectedContains,
                                   !.jsonSchema = test.jsonSchema])
  /\ UNCHANGED <<apiKeyActive, rateLimit, now, runs, probe, admitted, eval>>

\* variant: the key query without the userId filter
ActiveKeysOf_AnyOwner(userId, ids) ==
  {k \in ids : k \in KeyIds /\ apiKeyActive[k]}

\* variant: the key query without the isActive filter
ActiveKeysOf_AnyState(userId, ids) ==
  {k \in ids : k \in KeyIds /\ KeyOwner[k] = userId}

\* prisma.apiKey.findMany / findFirst with {id in ids, userId, isActive: true}
ActiveKeysOf(userId, ids) ==
  {k \in ids : k \in KeyIds /\ KeyOwner[k] = userId /\ apiKeyActive[k]}

\* runTest, lines 240-252: the bulk key lookup resolves; the loop is entered
FetchKeys(p) ==
  /\ call[p].pc = "fetchKeys"
  /\ LET c == call[p]
         apiKeyIds == {c.opts.modelConfigs[n].apiKeyId : n \in 1..Len(c.opts.modelConfigs)}
     IN Set(p, [c EXCEPT !.pc = "loop", !.keyLookups = @ + 1,
                         !.apiKeyMap = ActiveKeysOf(c.opts.userId, apiKeyIds),
                         !.results = << >>, !.batchIndex = 0, !.i = 0, !.j = 1])
  /\ UNCHANGED <<apiKeyActive, rateLimit, now, runs, probe, admitted, eval>>

\* variant: a selection without a key is skipped and leaves no result
AfterAdmission_DropsMissing(c) ==
  IF CurrentConfig(c).apiKeyId \notin c.apiKeyMap
    THEN LET d == NextPair(c) IN
         IF d.i < d.opts.batchCount THEN [d EXCEPT !.pc = "loop"] ELSE Return(d, d.results)
    ELSE [c EXCEPT !.pc = "create"]

\* runTest, lines 265-278, once the pair is admitted: the key of the selection
\* is looked up in the map built before the loop
AfterAdmission(c) ==
  IF CurrentConfig(c).apiKeyId \notin c.apiKeyMap
    THEN Push(c, FailedNoRecord(CurrentConfig(c)))
    ELSE [c EXCEPT !.pc = "create"]

\* variant: a denied re-check ends the loop and the results so far are returned
Recheck_ReturnsResults(c) ==
  IF ~Val(c.check).allowed
    THEN Return(c, c.results)
    ELSE AfterAdmission(c)

\* variant: the verdict of the re-check is ignored
Recheck_Proceeds(c) == AfterAdmission(c)

\* runTest, lines 258-263: "if (!check.allowed) throw" inside the loop
Recheck(c) ==
  IF ~Val(c.check).allowed
    THEN Throw(c, MSG_RATE_LIMIT_AFTER, Len(c.results))
    ELSE AfterAdmission(c)

\* runTest, lines 256-278: the head of one iteration, up to the await of
\* prisma.run.create
LoopHead(p) ==
  /\ call[p].pc = "loop"
  /\ LET c == call[p] IN
     IF c.opts.isDryRun
       THEN /\ Set(p, AfterAdmission(c))
            /\ UNCHANGED rateLimit
       ELSE \E ok \in BOOLEAN :
              LET check == checkRateLimit(rateLimit, c.opts.userId, now, ok)
                  d == [c EXCEPT !.check = Some(Checked("recheck", check.result, ok))]
              IN /\ rateLimit' = check.table
                 /\ Set(p, Recheck(d))
  /\ UNCHANGED <<apiKeyActive, now, runs, probe, admitted, eval>>

\* prisma.run.create of runTest (lines 278-292) and of runAdHocPrompt (lines
\* 353-365) resolves; executeRun is entered and issues its first update
CreateRun(p) ==
  /\ call[p].pc = "create"
  /\ LET c == call[p]
         o == c.opts
         adhoc == c.kind = "adhoc"
         run == NewRun(o.userId,
                       IF adhoc THEN None ELSE Some(o.testId),
                       CurrentConfig(c), c.prompt, c.mergedVariables,
                       c.batchId,
                       IF adhoc THEN None ELSE Some(c.batchIndex),
                       o.isDryRun)
     IN /\ runs' = Append(runs, run)
        /\ Set(p, [c EXCEPT !.pc = "markRunning", !.runId = Len(runs) + 1,
                            !.batchIndex = IF adhoc THEN @ ELSE @ + 1])
  /\ UNCHANGED <<apiKeyActive, rateLimit, now, probe, admitted, eval>>

\* variant: no catch block, the error leaves executeRun and runTest
Caught_Rethrows(c, message) == Throw(c, message, 0)

\* variant: the catch block hands the failure to the loop without awaiting
\* the update that stores it
Caught_NotStored(c, message) ==
  Push(c, [id |-> IdOf(c.runId), status |-> "failed",
           provider |-> CurrentConfig(c).provider, model |-> CurrentConfig(c).model,
           output |-> None, errorMessage |-> Some(message), latencyMs |-> Some(Measured),
           inputTokens |-> None, outputTokens |-> None, estimatedCost |-> None,
           passed |-> None, validationNotes |-> None])

\* variant: the catch block calls the adapter again
Caught_Retries(c, message) ==
  [c EXCEPT !.pc = "adapter", !.adapterCalls = @ + 1]

\* executeRun, lines 183-185: the catch block takes the message of whatever
\* the try block threw and goes on to store the failure
Caught(c, message) == [c EXCEPT !.pc = "failUpdate", !.errorMessage = message]

\* variant: the cost is computed from the local outputTokens of line 79
\* (estimateTokenCount('') = 0) instead of the 500-token stand-in
dryRunEstimate_ZeroOutput(prompt, mc) ==
  LET inputTokens == estimateTokenCount(prompt) IN
  [inputTokens |-> inputTokens,
   cost |-> calculateCost(mc.provider, mc.model, inputTokens, estimateTokenCount(<< >>)).cost]

\* executeRun, lines 78-80: the estimate of a dry run
dryRunEstimate(prompt, mc) ==
  LET inputTokens == estimateTokenCount(prompt) IN
  [inputTokens |-> inputTokens,
   cost |-> calculateCost(mc.provider, mc.model, inputTokens, DRY_RUN_OUTPUT_TOKENS).cost]

\* executeRun, lines 71-131 (and 183-185 when decryptApiKey or getAdapter
\* throws): the record becomes running; then either the dry-run estimate, or
\* the key is decrypted and adapter.complete is called
MarkRunning(p) ==
  /\ call[p].pc = "markRunning"
  /\ LET c == call[p]
         mc == CurrentConfig(c)
     IN /\ runs' = [runs EXCEPT ![c.runId].status = "running"]
        /\ IF c.opts.isDryRun
             THEN IF calculateCost(mc.provider, mc.model, estimateTokenCount(c.prompt),
                                   DRY_RUN_OUTPUT_TOKENS) = TypeErrorThrown
                    \* line 80 is outside the try block: the error leaves
                    \* executeRun and the call that awaits it
                    THEN Set(p, Throw(c, MSG_TYPE_ERROR, 0))
                    ELSE Set(p, [c EXCEPT !.pc = "dryUpdate"])
             ELSE IF ~KeyIntact[mc.apiKeyId]
               THEN Set(p, Caught([c EXCEPT !.decrypts = @ + 1], MSG_DECRYPT))
               ELSE IF ~IsSome(getAdapter(mc.provider))
                 THEN Set(p, Caught([c EXCEPT !.decrypts = @ + 1], MSG_NO_PROVIDER))
                 ELSE Set(p, [c EXCEPT !.pc = "adapter", !.decrypts = @ + 1,
                                       !.adapterCalls = @ + 1])
        /\ admitted' = IF call'[p].pc = "adapter" /\ Val(c.check).stored
                          THEN [admitted EXCEPT ![<<c.opts.userId, Val(c.check).windowKey>>] = @ + 1]
                          ELSE admitted
  /\ UNCHANGED <<apiKeyActive, rateLimit, now, probe, eval>>

\* executeRun, lines 126-147 / 183-185: adapter.complete resolves or rejects
AdapterResolve(p) ==
  /\ call[p].pc = "adapter"
  /\ LET c == call[p] IN
     \/ \E r \in RepliesOf(CurrentConfig(c).provider, c.prompt) :
          IF calculateCost(CurrentConfig(c).provider, CurrentConfig(c).model, 0, 0)
               = TypeErrorThrown
            \* line 141 is inside the try block
            THEN Set(p, Caught([c EXCEPT !.response = Some(r)], MSG_TYPE_ERROR))
            ELSE Set(p, [c EXCEPT !.pc = "completeUpdate", !.response = Some(r)])
     \/ LET apiKey == KeySecret[CurrentConfig(c).apiKeyId] IN
        \E e \in VendorErrors(apiKey) :
          Set(p, Caught([c EXCEPT !.vendorError = Some(e)], adapterError(e, apiKey)))
  /\ UNCHANGED <<apiKeyActive, rateLimit, now, runs, probe, admitted, eval>>

\* variant: the dry-run result is handed over while the record stays as the
\* first update left it
DryUpdate_NotStored(p) ==
  /\ call[p].pc = "dryUpdate"
  /\ LET c == call[p]
         mc == CurrentConfig(c)
         inputTokens == dryRunEstimate(c.prompt, mc).inputTokens
         cost == dryRunEstimate(c.prompt, mc).cost
     IN Set(p, Push(c, [id |-> IdOf(c.runId), status |-> "dry_run",
                        provider |-> mc.provider, model |-> mc.model,
                        output |-> None, errorMessage |-> None, latencyMs |-> None,
                        inputTokens |-> Some(inputTokens), outputTokens |-> None,
                        estimatedCost |-> Some(cost),
                        passed |-> None, validationNotes |-> None]))
  /\ UNCHANGED <<apiKeyActive, rateLimit, now, runs, probe, admitted, eval>>

\* executeRun, lines 78-104: the dry-run estimate is stored
DryUpdate(p) ==
  /\ call[p].pc = "dryUpdate"
  /\ LET c == call[p]
         mc == CurrentConfig(c)
         inputTokens == dryRunEstimate(c.prompt, mc).inputTokens
         cost == dryRunEstimate(c.prompt, mc).cost
     IN /\ runs' = [runs EXCEPT ![c.runId] =
                      [@ EXCEPT !.status = "dry_run", !.inputTokens = Some(inputTokens),
                                !.outputTokens = None, !.estimatedCost = Some(cost),
                                !.tokensEstimated = Some(TRUE), !.costEstimated = Some(TRUE),
                                !.isDryRun = TRUE, !.completedAt = Some(Measured)]]
        /\ Set(p, Push(c, [id |-> IdOf(c.runId), status |-> "dry_run",
                           provider |-> mc.provider, model |-> mc.model,
                           output |-> None, errorMessage |-> None, latencyMs |-> None,
                           inputTokens |-> Some(inputTokens), outputTokens |-> None,
                           estimatedCost |-> Some(cost),
                           passed |-> None, validationNotes |-> None]))
  /\ UNCHANGED <<apiKeyActive, rateLimit, now, probe, admitted, eval>>

\* executeRun, lines 136-182: the completed run is stored
CompleteUpdate(p) ==
  /\ call[p].pc = "completeUpdate"
  /\ LET c == call[p]
         mc == CurrentConfig(c)
         response == Val(c.response)
         inputTokens == IF IsSome(response.inputTokens) THEN Val(response.inputTokens)
                        ELSE estimateTokenCount(c.prompt)
         outputTokens == IF IsSome(response.outputTokens) THEN Val(response.outputTokens)
                         ELSE estimateTokenCount(response.output)
         tokensEstimated == response.tokensEstimated \/ ~IsSome(response.inputTokens)
         cc == calculateCost(mc.provider, mc.model, inputTokens, outputTokens)
     IN \E validation \in {validateOutput(response.output, c.expectedContains, c.jsonSchema)} :
        LET passed == IF IsSome(validation) THEN Some(Val(validation).passed) ELSE None
            notes == IF IsSome(validation) THEN Some(Val(validation).notes) ELSE None
        IN
        /\ runs' = [runs EXCEPT ![c.runId] =
                      [@ EXCEPT !.status = "completed", !.output = Some(response.output),
                                !.latencyMs = Some(Measured),
                                !.inputTokens = Some(inputTokens),
                                !.outputTokens = Some(outputTokens),
                                !.totalTokens = Some(inputTokens + outputTokens),
                                !.tokensEstimated = Some(tokensEstimated),
                                !.estimatedCost = Some(cc.cost),
                                !.costEstimated = Some(cc.isEstimated),
                                !.passed = passed, !.validationNotes = notes,
                                !.completedAt = Some(Measured)]]
        /\ Set(p, Push(c, [id |-> IdOf(c.runId), status |-> "completed",
                           provider |-> mc.provider, model |-> mc.model,
                           output |-> Some(response.output), errorMessage |-> None,
                           latencyMs |-> Some(Measured),
                           inputTokens |-> Some(inputTokens),
                           outputTokens |-> Some(outputTokens),
                           estimatedCost |-> Some(cc.cost),
                           passed |-> passed, validationNotes |-> notes]))
  /\ UNCHANGED <<apiKeyActive, rateLimit, now, probe, admitted, eval>>

\* executeRun, lines 183-205: the failed run is stored
FailUpdate(p) ==
  /\ call[p].pc = "failUpdate"
  /\ LET c == call[p]
         mc == CurrentConfig(c)
     IN /\ runs' = [runs EXCEPT ![c.runId] =
                      [@ EXCEPT !.status = "failed", !.errorMessage = Some(c.errorMessage),
                                !.latencyMs = Some(Measured), !.completedAt = Some(Measured)]]
        /\ Set(p, Push(c, [id |-> IdOf(c.runId), status |-> "failed",
                           provider |-> mc.provider, model |-> mc.model,
                           output |-> None, errorMessage |-> Some(c.errorMessage),
                           latencyMs |-> Some(Measured),
                           inputTokens |-> None, outputTokens |-> None,
                           estimatedCost |-> None,
                           passed |-> None, validationNotes |-> None]))
  /\ UNCHANGED <<apiKeyActive, rateLimit, now, probe, admitted, eval>>

(***************************************************************************)
(* lib/test-runner.ts: runAdHocPrompt                                      *)
(***************************************************************************)
AdHocOptions ==
  [userId : Users, prompt : AdHocPrompts, modelConfig : ModelConfigs, isDryRun : BOOLEAN]

\* runAdHocPrompt, lines 325-340: the admission check of a real run, then
\* findFirst is issued
AdHocCall(p, a) ==
  /\ CanStart(p)
  /\ LET c == [IdleCall EXCEPT !.kind = "adhoc", !.prompt = a.prompt,
                                 !.opts = [NoOpts EXCEPT !.userId = a.userId,
                                                         !.modelConfigs = <<a.modelConfig>>,
                                                         !.batchCount = 1,
                                                         !.isDryRun = a.isDryRun]]
       IN IF a.isDryRun
            THEN /\ Set(p, [c EXCEPT !.pc = "adhocKey"])
                 /\ UNCHANGED rateLimit
            ELSE \E ok \in BOOLEAN :
                   LET rateCheck == checkRateLimit(rateLimit, a.userId, now, ok)
                       d == [c EXCEPT !.check = Some(Checked("admission", rateCheck.result, ok))]
                   IN /\ rateLimit' = rateCheck.table
                      /\ Set(p, Admission(d, "adhocKey"))
  /\ UNCHANGED <<apiKeyActive, now, runs, probe, admitted, eval>>

AdHocStart(p) == \E a \in AdHocOptions : AdHocCall(p, a)

\* runAdHocPrompt, lines 334-353: the key lookup resolves
AdHocFetchKey(p) ==
  /\ call[p].pc = "adhocKey"
  /\ LET c == call[p]
         mc == CurrentConfig(c)
         d == [c EXCEPT !.keyLookups = @ + 1]
     IN IF ActiveKeysOf(c.opts.userId, {mc.apiKeyId}) = {}
          THEN Set(p, Return(d, FailedNoRecord(mc)))
          ELSE Set(p, [d EXCEPT !.pc = "create", !.apiKeyMap = {mc.apiKeyId}])
  /\ UNCHANGED <<apiKeyActive, rateLimit, now, runs, probe, admitted, eval>>

(***************************************************************************)
(* The limiter called on its own, and the clock                            *)
(***************************************************************************)
CountOf(table, userId, windowKey) ==
  IF <<userId, windowKey>> \in DOMAIN table THEN table[<<userId, windowKey>>] ELSE 0

\* checkRateLimit(userId) called directly.  probe[userId] keeps what the
\* caller saw: how many of its calls in the current window reached the store
\* (calls), and the value the last call returned (last)
RECURSIVE SumCounts(_, _)
SumCounts(table, keys) ==
  IF keys = {} THEN 0
  ELSE LET k == CHOOSE x \in keys : TRUE IN table[k] + SumCounts(table, keys \ {k})

CheckRateLimit(u) ==
  /\ SumCounts(rateLimit, DOMAIN rateLimit) < MaxProbes
  /\ \E ok \in BOOLEAN :
       LET r == checkRateLimit(rateLimit, u, now, ok) IN
       /\ rateLimit' = r.table
       /\ probe' = [probe EXCEPT ![u] =
                      [calls |-> IF ok THEN @.calls + 1 ELSE @.calls,
                       last |-> Some([ok |-> ok, allowed |-> r.result.allowed,
                                      remaining |-> r.result.remaining])]]
  /\ UNCHANGED <<apiKeyActive, now, runs, call, admitted, eval>>

\* the wall clock enters the next minute: new Date() yields the next windowKey
Tick ==
  /\ now < MaxMinute
  /\ now' = now + 1
  /\ probe' = NoProbe
  /\ UNCHANGED <<apiKeyActive, rateLimit, runs, call, admitted, eval>>

(***************************************************************************)
(* Specifications                                                          *)
(***************************************************************************)
\* one orchestration call, step by step
Next ==
  \/ \E p \in Procs : RunTestStart(p)
  \/ \E p \in Procs : FetchTest(p)
  \/ \E p \in Procs : FetchKeys(p)
  \/ \E p \in Procs : LoopHead(p)
  \/ \E p \in Procs : CreateRun(p)
  \/ \E p \in Procs : MarkRunning(p)
  \/ \E p \in Procs : AdapterResolve(p)
  \/ \E p \in Procs : DryUpdate(p)
  \/ \E p \in Procs : CompleteUpdate(p)
  \/ \E p \in Procs : FailUpdate(p)
  \/ \E p \in Procs : AdHocStart(p)
  \/ \E p \in Procs : AdHocFetchKey(p)

Spec == Init /\ [][Next]_vars

\* the limiter alone, from an empty table, across minute windows
InitRate ==
  /\ apiKeyActive = [k \in KeyIds |-> TRUE]
  /\ rateLimit = << >>
  /\ now = 0
  /\ runs = << >>
  /\ call = [p \in Procs |-> IdleCall]
  /\ probe = NoProbe
  /\ admitted = NoneAdmitted
  /\ eval = NoEval

NextRate ==
  \/ \E u \in Users : CheckRateLimit(u)
  \/ Tick

SpecRate == InitRate /\ [][NextRate]_vars

(***************************************************************************)
(* Requests of one user served concurrently: app/actions/runs.ts and       *)
(* app/actions/keys.ts                                                     *)
(***************************************************************************)
ConcProcs == {"c1", "c2"}
ConcUser == "u1"
ConcConfig == MC("openai", "gpt-4o", "k1")

\* real batches of test t1 over the one selection, without overrides
BatchRunOptions ==
  { o \in RunOptions :
      /\ o.userId = ConcUser /\ o.testId = "t1" /\ ~o.isDryRun
      /\ o.modelConfigs = <<ConcConfig>> /\ o.variables = << >> }

\* ... and the single runs among them
ConcRunOptions == { o \in BatchRunOptions : o.batchCount = 1 }

ConcAdHocOptions ==
  { a \in AdHocOptions : a.userId = ConcUser /\ a.modelConfig = ConcConfig /\ ~a.isDryRun }

MSG_RUN_NOT_FOUND == << "Run not found" >>
MSG_KEY_NOT_ACTIVE == << "The API key used for this run is no longer active" >>
MSG_ADHOC_RERUN == << "Cannot rerun ad-hoc prompts from here" >>

\* rerunFromRun returns { error: message } without calling runTest
Refuse(message, runId) ==
  [IdleCall EXCEPT !.kind = "rerun", !.pc = "returned", !.rerunOf = Some(runId),
                   !.opts = [NoOpts EXCEPT !.userId = ConcUser],
                   !.outcome = Some([ok |-> FALSE, value |-> << >>, error |-> message, n |-> 0])]

\* originalRun.variables (runs.ts line 364): the run records are written with
\* the snapshot in inputVariables (test-runner lines 286 and 361) and nothing
\* writes a field named variables, so the read yields no value
variablesOf(originalRun) == None

\* the options rerunFromRun hands to runTest, runs.ts lines 357-368; absent
\* variables take the default {} of runTest line 212
rerunOptions(originalRun, userId) ==
  [userId |-> userId, testId |-> Val(originalRun.testId),
   modelConfigs |-> << MC(originalRun.provider, originalRun.model, originalRun.apiKeyId) >>,
   variables |-> IF IsSome(variablesOf(originalRun)) THEN Val(variablesOf(originalRun))
                 ELSE << >>,
   batchCount |-> 1, isDryRun |-> FALSE]

\* rerunFromRun(runId), runs.ts lines 329-382; runId 0 names no record
RerunFromRun(p) ==
  /\ CanStart(p)
  /\ \E runId \in 0..Len(runs) :
       IF runId = 0 \/ runs[runId].userId # ConcUser
         THEN Set(p, Refuse(MSG_RUN_NOT_FOUND, runId)) /\ UNCHANGED rateLimit
       ELSE IF ~apiKeyActive[runs[runId].apiKeyId]
         THEN Set(p, Refuse(MSG_KEY_NOT_ACTIVE, runId)) /\ UNCHANGED rateLimit
       ELSE IF ~IsSome(runs[runId].testId)
         THEN Set(p, Refuse(MSG_ADHOC_RERUN, runId)) /\ UNCHANGED rateLimit
       ELSE RunTestCall(p, rerunOptions(runs[runId], ConcUser), Some(runId))
  /\ UNCHANGED <<apiKeyActive, now, runs, probe, admitted, eval>>

ConcRunTest(p) == \E o \in ConcRunOptions : RunTestCall(p, o, None)

BatchRunTest(p) == \E o \in BatchRunOptions : RunTestCall(p, o, None)

ConcAdHoc(p) == \E a \in ConcAdHocOptions : AdHocCall(p, a)

\* toggleApiKeyActive(keyId), keys.ts lines 135-160, one toggle request at a
\* time: the row is read and written back negated
toggleApiKeyActive(keyId) ==
  /\ KeyOwner[keyId] = ConcUser
  /\ apiKeyActive' = [apiKeyActive EXCEPT ![keyId] = ~@]
  /\ UNCHANGED <<rateLimit, now, runs, call, probe, admitted, eval>>

\* the records earlier requests of the user left: a completed run of test t1
\* made with the override n = 42, and a completed ad-hoc run
EarlierRuns ==
  LET o == [userId |-> ConcUser, testId |-> "t1", modelConfigs |-> <<ConcConfig>>,
            variables |-> << << <<"n">>, <<"4", "2">> >> >>, batchCount |-> 1,
            isDryRun |-> FALSE]
      merged == mergeVariables(TestTable["t1"].variables, o.variables)
      prompt == substituteVariables(TestTable["t1"].basePrompt, merged)
  IN << [NewRun(ConcUser, Some("t1"), ConcConfig, prompt, merged, Some("c0"), Some(0), FALSE)
           EXCEPT !.status = "completed", !.completedAt = Some(Measured)],
        [NewRun(ConcUser, None, ConcConfig, CHOOSE a \in AdHocPrompts : TRUE, << >>,
                None, None, FALSE)
           EXCEPT !.status = "completed", !.completedAt = Some(Measured)] >>

\* the counter the concurrent requests find: two or one short of the limit
ConcCounts == {MAX_RUNS_PER_MINUTE - 2, MAX_RUNS_PER_MINUTE - 1}

\* the requests start in a minute in which earlier ad-hoc runs of the user,
\* each admitted, brought the counter close to the limit
InitConc ==
  /\ apiKeyActive = [k \in KeyIds |-> TRUE]
  /\ \E n \in ConcCounts :
       /\ rateLimit = WindowAt(n)
       /\ admitted = [key \in Users \X Minutes |-> IF key[2] = 0 THEN n ELSE 0]
       /\ eval = NoEval
  /\ now = 0
  /\ runs = EarlierRuns
  /\ call = [p \in ConcProcs |-> IdleCall]
  /\ probe = NoProbe

NextConc ==
  \/ \E p \in ConcProcs : ConcRunTest(p)
  \/ \E p \in ConcProcs : ConcAdHoc(p)
  \/ \E p \in ConcProcs : RerunFromRun(p)
  \/ \E p \in ConcProcs : FetchTest(p)
  \/ \E p \in ConcProcs : FetchKeys(p)
  \/ \E p \in ConcProcs : LoopHead(p)
  \/ \E p \in ConcProcs : CreateRun(p)
  \/ \E p \in ConcProcs : MarkRunning(p)
  \/ \E p \in ConcProcs : AdapterResolve(p)
  \/ \E p \in ConcProcs : CompleteUpdate(p)
  \/ \E p \in ConcProcs : FailUpdate(p)
  \/ \E p \in ConcProcs : AdHocFetchKey(p)
  \/ Tick

SpecConc == InitConc /\ [][NextConc]_vars

\* one request (a batch or a rerun) while the user toggles the key it selects
SoloProcs == {"c1"}

InitToggle ==
  /\ apiKeyActive = [k \in KeyIds |-> TRUE]
  /\ rateLimit = << >>
  /\ admitted = NoneAdmitted
  /\ eval = NoEval
  /\ now = 0
  /\ runs = EarlierRuns
  /\ call = [p \in SoloProcs |-> IdleCall]
  /\ probe = NoProbe

NextToggle ==
  \/ \E p \in SoloProcs : BatchRunTest(p)
  \/ \E p \in SoloProcs : RerunFromRun(p)
  \/ \E p \in SoloProcs : FetchTest(p)
  \/ \E p \in SoloProcs : FetchKeys(p)
  \/ \E p \in SoloProcs : LoopHead(p)
  \/ \E p \in SoloProcs : CreateRun(p)
  \/ \E p \in SoloProcs : MarkRunning(p)
  \/ \E p \in SoloProcs : AdapterResolve(p)
  \/ \E p \in SoloProcs : CompleteUpdate(p)
  \/ \E p \in SoloProcs : FailUpdate(p)
  \/ toggleApiKeyActive(ConcConfig.apiKeyId)

SpecToggle == InitToggle /\ [][NextToggle]_vars

(***************************************************************************)
(* Real runs whose adapter calls may fail with a message quoting the key   *)
(***************************************************************************)
RedactConfigs == { MC("openai", "gpt-4o", k) : k \in DOMAIN KeySecret }

RedactRunOptions ==
  [userId : {ConcUser}, testId : {"t1"},
   modelConfigs : {<<a>> : a \in RedactConfigs} \cup {<<a, b>> : a, b \in RedactConfigs},
   variables : {<< >>}, batchCount : {1}, isDryRun : {FALSE}]

RedactAdHocOptions ==
  { a \in [userId : {ConcUser}, prompt : AdHocPrompts, modelConfig : RedactConfigs,
            isDryRun : {FALSE}] : TRUE }

RedactRunTest(p) == \E o \in RedactRunOptions : RunTestCall(p, o, None)

RedactAdHoc(p) == \E a \in RedactAdHocOptions : AdHocCall(p, a)

InitRedact ==
  /\ apiKeyActive = [k \in KeyIds |-> TRUE]
  /\ rateLimit = << >>
  /\ admitted = NoneAdmitted
  /\ eval = NoEval
  /\ now = 0
  /\ runs = << >>
  /\ call = [p \in SoloProcs |-> IdleCall]
  /\ probe = NoProbe

NextRedact ==
  \/ \E p \in SoloProcs : RedactRunTest(p)
  \/ \E p \in SoloProcs : RedactAdHoc(p)
  \/ \E p \in SoloProcs : FetchTest(p)
  \/ \E p \in SoloProcs : FetchKeys(p)
  \/ \E p \in SoloProcs : LoopHead(p)
  \/ \E p \in SoloProcs : CreateRun(p)
  \/ \E p \in SoloProcs : MarkRunning(p)
  \/ \E p \in SoloProcs : AdapterResolve(p)
  \/ \E p \in SoloProcs : CompleteUpdate(p)
  \/ \E p \in SoloProcs : FailUpdate(p)
  \/ \E p \in SoloProcs : AdHocFetchKey(p)

SpecRedact == InitRedact /\ [][NextRedact]_vars

(***************************************************************************)
(* redactApiKey applied on its own                                         *)
(***************************************************************************)
MaxParts == 3

\* keys: none, one of 3 characters, one of 7, and keys of exactly 8: a plain
\* one, one that begins with the last character of the replacement text, and
\* one that is the word inside the replacement text
RedactSecrets ==
  { << >>,
    KeySecret["k3"],
    <<"]", "x", "x", "x", "x", "x", "x">>,
    KeySecret["k1"],
    <<"]", "x", "x", "x", "x", "x", "x", "x">>,
    <<"R", "E", "D", "A", "C", "T", "E", "D">> }

\* pieces of a message about a key: the key, the key without its first
\* character, and other characters
RedactParts(apiKey) ==
  {apiKey, <<"k">>, <<"x">>} \cup (IF Len(apiKey) > 1 THEN {Tail(apiKey)} ELSE {})

RECURSIVE TextsOf(_, _)
TextsOf(parts, n) ==
  IF n = 0 THEN {<< >>}
  ELSE LET shorter == TextsOf(parts, n - 1)
       IN shorter \cup {t \o part : t \in shorter, part \in parts}

RedactInputs ==
  UNION { { [fn |-> "redactApiKey", text |-> text, apiKey |-> apiKey, out |-> None] :
              text \in TextsOf(RedactParts(apiKey), MaxParts) } :
          apiKey \in RedactSecrets }

\* the call returns
RedactReturn ==
  /\ eval.fn = "redactApiKey"
  /\ eval.out = None
  /\ eval' = [eval EXCEPT !.out = Some(redactApiKey(eval.text, eval.apiKey))]
  /\ UNCHANGED <<apiKeyActive, rateLimit, now, runs, call, probe, admitted>>

InitRedactApiKey ==
  /\ apiKeyActive = [k \in KeyIds |-> TRUE]
  /\ rateLimit = << >>
  /\ admitted = NoneAdmitted
  /\ now = 0
  /\ runs = << >>
  /\ call = [p \in SoloProcs |-> IdleCall]
  /\ probe = NoProbe
  /\ eval \in RedactInputs

SpecRedactApiKey == InitRedactApiKey /\ [][RedactReturn]_vars

(***************************************************************************)
(* Runs of the tests that ask for JSON                                     *)
(***************************************************************************)
ValidateRunOptions ==
  [userId : {ConcUser}, testId : ValidationTestIds, modelConfigs : {<<ConcConfig>>},
   variables : {<< >>}, batchCount : {1}, isDryRun : {FALSE}]

ValidateRunTest(p) == \E o \in ValidateRunOptions : RunTestCall(p, o, None)

InitValidate ==
  /\ apiKeyActive = [k \in KeyIds |-> TRUE]
  /\ rateLimit = << >>
  /\ admitted = NoneAdmitted
  /\ eval = NoEval
  /\ now = 0
  /\ runs = << >>
  /\ call = [p \in SoloProcs |-> IdleCall]
  /\ probe = NoProbe

NextValidate ==
  \/ \E p \in SoloProcs : ValidateRunTest(p)
  \/ \E p \in SoloProcs : FetchTest(p)
  \/ \E p \in SoloProcs : FetchKeys(p)
  \/ \E p \in SoloProcs : LoopHead(p)
  \/ \E p \in SoloProcs : CreateRun(p)
  \/ \E p \in SoloProcs : MarkRunning(p)
  \/ \E p \in SoloProcs : AdapterResolve(p)
  \/ \E p \in SoloProcs : CompleteUpdate(p)
  \/ \E p \in SoloProcs : FailUpdate(p)

SpecValidate == InitValidate /\ [][NextValidate]_vars

(***************************************************************************)
(* calculateCost applied on its own                                        *)
(***************************************************************************)
MaxTokens == 2000

\* provider and model are the strings of the request (z.string(), runs.ts
\* lines 16-17): a provider with prices, the provider whose prices are zero,
\* one without prices, and a name every object has a member for
CostProviders == {"openai", "local", "acme", "constructor"}
CostModels == {"gpt-4o", "gpt-4o-mini", "default", "gpt-5", "toString"}
CostTokens == {0, 9, DRY_RUN_OUTPUT_TOKENS, MaxTokens}

CostInputs ==
  [fn : {"calculateCost"}, provider : CostProviders, model : CostModels,
   inputTokens : CostTokens, outputTokens : CostTokens, out : {None}]

\* the call returns or throws
CostReturn ==
  /\ eval.fn = "calculateCost"
  /\ eval.out = None
  /\ eval' = [eval EXCEPT !.out = Some(calculateCost(eval.provider, eval.model,
                                                     eval.inputTokens, eval.outputTokens))]
  /\ UNCHANGED <<apiKeyActive, rateLimit, now, runs, call, probe, admitted>>

InitCost ==
  /\ apiKeyActive = [k \in KeyIds |-> TRUE]
  /\ rateLimit = << >>
  /\ admitted = NoneAdmitted
  /\ now = 0
  /\ runs = << >>
  /\ call = [p \in SoloProcs |-> IdleCall]
  /\ probe = NoProbe
  /\ eval \in CostInputs

SpecCost == InitCost /\ [][CostReturn]_vars

(***************************************************************************)
(* lib/encryption.ts: the process and its APP_ENCRYPTION_KEY               *)
(***************************************************************************)
MaxRequests == 4

\* process.env.APP_ENCRYPTION_KEY: unset, or a string of so many characters
EnvKeys == {None} \cup {Some(n) : n \in {0, 32, KEY_HEX_LENGTH, KEY_HEX_LENGTH + 2}}

\* getEncryptionKey, lines 12-31: TRUE when it returns the key, FALSE when it
\* throws one of its two FATAL errors
getEncryptionKey(key) ==
  IF key = None \/ Val(key) = 0 THEN FALSE
  ELSE IF Val(key) # KEY_HEX_LENGTH THEN FALSE
  ELSE TRUE

\* validateEncryptionSetup, lines 116-135: getEncryptionKey, then a round
\* trip; exported for a start-up hook, and no file of the application calls it
validateEncryptionSetup(key) == getEncryptionKey(key)

Process(key) == [fn |-> "process", envKey |-> key, phase |-> "loading", served |-> << >>]

\* the server comes up: lib/encryption.ts is loaded, which defines constants
\* and functions and evaluates nothing else
ProcessStart ==
  /\ eval.fn = "process"
  /\ eval.phase = "loading"
  /\ eval' = [eval EXCEPT !.phase = "serving"]
  /\ UNCHANGED <<apiKeyActive, rateLimit, now, runs, call, probe, admitted>>

\* a request that reaches encryptApiKey (createApiKey) or decryptApiKey
\* (executeRun, testApiKey): the first statement of both is getEncryptionKey()
KeyRequest(op) ==
  /\ eval.fn = "process"
  /\ eval.phase = "serving"
  /\ Len(eval.served) < MaxRequests
  /\ eval' = [eval EXCEPT !.served = Append(@, [op |-> op, ok |-> getEncryptionKey(eval.envKey)])]
  /\ UNCHANGED <<apiKeyActive, rateLimit, now, runs, call, probe, admitted>>

InitProcess ==
  /\ apiKeyActive = [k \in KeyIds |-> TRUE]
  /\ rateLimit = << >>
  /\ admitted = NoneAdmitted
  /\ now = 0
  /\ runs = << >>
  /\ call = [p \in SoloProcs |-> IdleCall]
  /\ probe = NoProbe
  /\ eval \in {Process(key) : key \in EnvKeys}

NextProcess ==
  \/ ProcessStart
  \/ KeyRequest("encryptApiKey")
  \/ KeyRequest("decryptApiKey")

SpecProcess == InitProcess /\ [][NextProcess]_vars

(***************************************************************************)
(* lib/rate-limit.ts: checkRateLimit called by requests served             *)
(* concurrently.  A call computes its windowKey from the clock (lines      *)
(* 15-17) and awaits the upsert (line 21), which the store executes as one *)
(* statement at some later moment; the rest of the call works on the row   *)
(* the upsert returned.                                                    *)
(***************************************************************************)
MaxCalls == 3

LimiterProcs == 1..MaxCalls

NoLimiterCall == [pc |-> "idle", userId |-> "", windowKey |-> 0, stored |-> FALSE, result |-> None]

\* lines 15-21: the window key is taken and the upsert is sent
LimiterIssue(p) ==
  /\ eval.fn = "checkRateLimit"
  /\ eval.calls[p].pc = "idle"
  /\ \E u \in Users :
       eval' = [eval EXCEPT !.calls[p] = [NoLimiterCall EXCEPT !.pc = "upsert", !.userId = u,
                                                             !.windowKey = now]]
  /\ UNCHANGED <<apiKeyActive, rateLimit, now, runs, call, probe, admitted>>

\* lines 21-46: the store executes the upsert or rejects it, and the call
\* returns
LimiterUpsert(p) ==
  /\ eval.fn = "checkRateLimit"
  /\ eval.calls[p].pc = "upsert"
  /\ \E ok \in BOOLEAN :
       LET c == eval.calls[p]
           r == checkRateLimit(rateLimit, c.userId, c.windowKey, ok)
       IN /\ rateLimit' = r.table
          /\ eval' = [eval EXCEPT !.calls[p] = [c EXCEPT !.pc = "returned", !.stored = ok,
                                                         !.result = Some(r.result)]]
  /\ UNCHANGED <<apiKeyActive, now, runs, call, probe, admitted>>

\* the counters earlier calls of the minute, all of them returned, left
LimiterCounts == {0, MAX_RUNS_PER_MINUTE - 2, MAX_RUNS_PER_MINUTE - 1}

InitLimiter ==
  /\ apiKeyActive = [k \in KeyIds |-> TRUE]
  /\ \E n \in LimiterCounts :
       /\ rateLimit = WindowAt(n)
       /\ eval = [fn |-> "checkRateLimit", before |-> WindowAt(n),
                  calls |-> [p \in LimiterProcs |-> NoLimiterCall]]
  /\ admitted = NoneAdmitted
  /\ now = 0
  /\ runs = << >>
  /\ call = [p \in SoloProcs |-> IdleCall]
  /\ probe = NoProbe

NextLimiter ==
  \/ \E p \in LimiterProcs : LimiterIssue(p)
  \/ \E p \in LimiterProcs : LimiterUpsert(p)
  \/ Tick

SpecLimiter == InitLimiter /\ [][NextLimiter]_vars

(***************************************************************************)
(* substituteVariables applied on its own, and again to its result         *)
(***************************************************************************)
MaxPieces == 2
MaxVariables == 2

\* pieces of a prompt template: placeholders, with and without blanks inside
\* the braces, and plain text
TemplatePieces ==
  { <<"{", "{", "a", "}", "}">>, <<"{", "{", " ", "b", " ", "}", "}">>,
    <<"{", "{", "c", "}", "}">>, <<"x">> }

\* the keys and values of the variables (z.record(z.string()), runs.ts line
\* 20, and the JSON object stored with the test): any strings
VariableKeys == { <<"a">>, <<"b">>, <<".">> }
VariableValues ==
  { << >>, <<"x">>, <<"{", "{", "a", "}", "}">>, <<"{", "{", "c", "}", "}", "y">>, <<"$", "&">> }

\* the lists Object.entries can yield: the keys of an object are distinct
VariableLists ==
  { vs \in UNION { [1..n -> VariableKeys \X VariableValues] : n \in 0..MaxVariables } :
      \A m, n \in 1..Len(vs) : m # n => vs[m][1] # vs[n][1] }

SubstituteInputs ==
  [fn : {"substituteVariables"}, template : TextsOf(TemplatePieces, MaxPieces),
   variables : VariableLists, once : {None}, twice : {None}]

\* the call returns
SubstituteOnce ==
  /\ eval.fn = "substituteVariables"
  /\ eval.once = None
  /\ eval' = [eval EXCEPT !.once = Some(substituteVariables(eval.template, eval.variables))]
  /\ UNCHANGED <<apiKeyActive, rateLimit, now, runs, call, probe, admitted>>

\* the call made on the result of the first one, with the same variables,
\* returns
SubstituteAgain ==
  /\ eval.fn = "substituteVariables"
  /\ eval.once # None /\ eval.twice = None
  /\ eval' = [eval EXCEPT !.twice = Some(substituteVariables(Val(eval.once), eval.variables))]
  /\ UNCHANGED <<apiKeyActive, rateLimit, now, runs, call, probe, admitted>>

InitSubstitute ==
  /\ apiKeyActive = [k \in KeyIds |-> TRUE]
  /\ rateLimit = << >>
  /\ admitted = NoneAdmitted
  /\ now = 0
  /\ runs = << >>
  /\ call = [p \in SoloProcs |-> IdleCall]
  /\ probe = NoProbe
  /\ eval \in SubstituteInputs

NextSubstitute ==
  \/ SubstituteOnce
  \/ SubstituteAgain

SpecSubstitute == InitSubstitute /\ [][NextSubstitute]_vars

(***************************************************************************)
(* Real runs whose replies carry any shape of usage data                   *)
(***************************************************************************)
UsageConfigs == { MC("openai", "gpt-4o", "k1"), MC("local", "default", "k1") }

UsageRunOptions ==
  [userId : {ConcUser}, testId : {"t8"}, modelConfigs : {<<mc>> : mc \in UsageConfigs},
   variables : {<< >>}, batchCount : {1}, isDryRun : {FALSE}]

UsageRunTest(p) == \E o \in UsageRunOptions : RunTestCall(p, o, None)

InitUsage ==
  /\ apiKeyActive = [k \in KeyIds |-> TRUE]
  /\ rateLimit = << >>
  /\ admitted = NoneAdmitted
  /\ eval = NoEval
  /\ now = 0
  /\ runs = << >>
  /\ call = [p \in SoloProcs |-> IdleCall]
  /\ probe = NoProbe

NextUsage ==
  \/ \E p \in SoloProcs : UsageRunTest(p)
  \/ \E p \in SoloProcs : FetchTest(p)
  \/ \E p \in SoloProcs : FetchKeys(p)
  \/ \E p \in SoloProcs : LoopHead(p)
  \/ \E p \in SoloProcs : CreateRun(p)
  \/ \E p \in SoloProcs : MarkRunning(p)
  \/ \E p \in SoloProcs : AdapterResolve(p)
  \/ \E p \in SoloProcs : CompleteUpdate(p)
  \/ \E p \in SoloProcs : FailUpdate(p)

SpecUsage == InitUsage /\ [][NextUsage]_vars

(***************************************************************************)
(* One call, every await of which resolves, on requests that take each of  *)
(* the ways out of runTest and runAdHocPrompt                              *)
(***************************************************************************)
\* a selection that runs, one whose provider names a member every object
\* inherits, and one whose key has no row
ExitConfigs ==
  { MC("openai", "gpt-4o", "k1"), MC("constructor", "gpt-4o", "k1"),
    MC("openai", "gpt-4o-mini", "kx") }

\* no override, and one whose key is no pattern
ExitOverrides == { << >>, << << <<"(">>, <<"x">> >> >> }

ExitRunOptions ==
  { o \in [userId : {ConcUser}, testId : {"t1", "t9", "tx"},
           modelConfigs : UNION { [1..n -> ExitConfigs] : n \in 1..MaxSel },
           variables : ExitOverrides, batchCount : 1..MaxBatch, isDryRun : BOOLEAN] :
      o.batchCount * Len(o.modelConfigs) <= MaxPairs }

ExitAdHocOptions ==
  [userId : {ConcUser}, prompt : AdHocPrompts, modelConfig : ExitConfigs, isDryRun : BOOLEAN]

ExitRunTest(p) == \E o \in ExitRunOptions : RunTestCall(p, o, None)

ExitAdHoc(p) == \E a \in ExitAdHocOptions : AdHocCall(p, a)

InitExit ==
  /\ apiKeyActive = [k \in KeyIds |-> TRUE]
  /\ \E n \in InitialCounts : rateLimit = WindowAt(n)
  /\ admitted = NoneAdmitted
  /\ eval = NoEval
  /\ now = 0
  /\ runs = << >>
  /\ call = [p \in SoloProcs |-> IdleCall]
  /\ probe = NoProbe

NextExit ==
  \/ \E p \in SoloProcs : ExitRunTest(p)
  \/ \E p \in SoloProcs : ExitAdHoc(p)
  \/ \E p \in SoloProcs : FetchTest(p)
  \/ \E p \in SoloProcs : FetchKeys(p)
  \/ \E p \in SoloProcs : LoopHead(p)
  \/ \E p \in SoloProcs : CreateRun(p)
  \/ \E p \in SoloProcs : MarkRunning(p)
  \/ \E p \in SoloProcs : AdapterResolve(p)
  \/ \E p \in SoloProcs : DryUpdate(p)
  \/ \E p \in SoloProcs : CompleteUpdate(p)
  \/ \E p \in SoloProcs : FailUpdate(p)
  \/ \E p \in SoloProcs : AdHocFetchKey(p)

\* every promise the call awaits (queries, updates, adapter.complete) settles
SpecExit == InitExit /\ [][NextExit]_vars /\ WF_vars(NextExit)

(***************************************************************************)
(* One real batch or rerun of a user whose minute bucket is empty, while   *)
(* the clock may enter the next minute                                     *)
(***************************************************************************)
\* a selection whose attempts fail when the key is decrypted
FailingConfig == MC("local", "llama3", "k2")

\* batches of any number of repetitions the request schema admits over the
\* failing selection, and batches of up to MaxBatch repetitions over the one
\* whose adapter is called
QuotaRunOptions ==
  { o \in [userId : {ConcUser}, testId : {"t1"},
           modelConfigs : {<<FailingConfig>>, <<ConcConfig>>},
           variables : {<< >>}, batchCount : 1..MAX_BATCH_COUNT, isDryRun : {FALSE}] :
      o.modelConfigs = <<ConcConfig>> => o.batchCount <= MaxBatch }

QuotaRunTest(p) == \E o \in QuotaRunOptions : RunTestCall(p, o, None)

InitQuota ==
  /\ apiKeyActive = [k \in KeyIds |-> TRUE]
  /\ rateLimit = << >>
  /\ admitted = NoneAdmitted
  /\ eval = NoEval
  /\ now = 0
  /\ runs = EarlierRuns
  /\ call = [p \in SoloProcs |-> IdleCall]
  /\ probe = NoProbe

NextQuota ==
  \/ \E p \in SoloProcs : QuotaRunTest(p)
  \/ \E p \in SoloProcs : RerunFromRun(p)
  \/ \E p \in SoloProcs : FetchTest(p)
  \/ \E p \in SoloProcs : FetchKeys(p)
  \/ \E p \in SoloProcs : LoopHead(p)
  \/ \E p \in SoloProcs : CreateRun(p)
  \/ \E p \in SoloProcs : MarkRunning(p)
  \/ \E p \in SoloProcs : AdapterResolve(p)
  \/ \E p \in SoloProcs : CompleteUpdate(p)
  \/ \E p \in SoloProcs : FailUpdate(p)
  \/ Tick

SpecQuota == InitQuota /\ [][NextQuota]_vars

(***************************************************************************)
(* Vocabulary of the properties                                            *)
(***************************************************************************)
Terminal == {"completed", "failed", "dry_run"}

TotalPairs(c) == c.opts.batchCount * Len(c.opts.modelConfigs)

\* the selection of the k-th attempt (k = 1, 2, ...) in nested-iteration order
PairConfig(c, k) == c.opts.modelConfigs[((k - 1) % Len(c.opts.modelConfigs)) + 1]

\* the credential named by a selection is missing, disabled or another user's
CredentialUnusable(userId, apiKeyId) ==
  \/ apiKeyId \notin KeyIds
  \/ KeyOwner[apiKeyId] # userId
  \/ ~apiKeyActive[apiKeyId]

HasRecord(r) == r.id # NoId

DeniedAt(c, at) == IsSome(c.check) /\ Val(c.check).at = at /\ ~Val(c.check).allowed

RateLimitErrors == {MSG_RATE_LIMIT, MSG_RATE_LIMIT_AFTER}

\* the results a call has handed or will hand to its caller so far
ResultsOf(c) ==
  IF c.kind = "adhoc"
    THEN IF c.pc = "returned" THEN << Val(c.outcome).value >> ELSE << >>
    ELSE c.results

StatusStep ==
  /\ Len(runs') >= Len(runs)
  /\ \A k \in 1..Len(runs) :
       \/ runs'[k].status = runs[k].status
       \/ runs[k].status = "pending" /\ runs'[k].status = "running"
       \/ runs[k].status = "running" /\ runs'[k].status \in Terminal
  /\ \A k \in (Len(runs) + 1)..Len(runs') : runs'[k].status = "pending"

RunningBeforeAdapter ==
  \A p \in Procs :
    /\ call[p].pc = "adapter" => runs[call[p].runId].status = "running"
    /\ call[p].pc = "markRunning" => runs[call[p].runId].status = "pending"

IsDryRunResult(c, r, mc) ==
  /\ r.status = "dry_run"
  /\ r.outputTokens = None
  /\ r.inputTokens = Some(estimateTokenCount(c.prompt))
  /\ r.estimatedCost =
       Some(calculateCost(mc.provider, mc.model, estimateTokenCount(c.prompt), 500).cost)

C3_DryRunEveryResult ==
  \A p \in Procs :
    LET c == call[p] IN
    (c.kind = "runTest" /\ c.opts.isDryRun) =>
      /\ c.adapterCalls = 0
      /\ \A k \in 1..Len(c.results) : IsDryRunResult(c, c.results[k], PairConfig(c, k))

(***************************************************************************)
(* C3 (amended): a dry-run runTest makes no adapter call and decrypts no   *)
(* key; the result of every selection whose credential was found has       *)
(* status dry_run, no outputTokens and the cost of the estimated input     *)
(* tokens plus 500 output tokens, and its record stores the same; the      *)
(* result of a selection whose credential is missing, disabled or another  *)
(* user's has status failed and no record.                                 *)
(***************************************************************************)
C3_DryRunResults ==
  \A p \in Procs :
    LET c == call[p] IN
    (c.kind = "runTest" /\ c.opts.isDryRun) =>
      /\ c.adapterCalls = 0
      /\ c.decrypts = 0
      /\ c.pc # "adapter"
      /\ \A k \in 1..Len(c.results) :
           LET r == c.results[k]
               mc == PairConfig(c, k)
           IN IF CredentialUnusable(c.opts.userId, mc.apiKeyId)
                THEN r.status = "failed" /\ ~HasRecord(r)
                ELSE /\ IsDryRunResult(c, r, mc)
                     /\ HasRecord(r)
                     /\ runs[Val(r.id)].status = "dry_run"
                     /\ runs[Val(r.id)].outputTokens = None
                     /\ runs[Val(r.id)].estimatedCost = r.estimatedCost

C3_Witness ==
  \E p \in Procs :
    LET c == call[p] IN
    /\ c.kind = "runTest" /\ c.opts.isDryRun /\ c.pc = "returned"
    /\ \E k \in 1..Len(c.results) : c.results[k].status = "dry_run"
    /\ \E k \in 1..Len(c.results) : c.results[k].status = "failed"

(***************************************************************************)
(* C4: a runTest call that returns hands back exactly batchCount x         *)
(* |modelConfigs| results, the k-th one being the result of the k-th pair  *)
(* in repetition-major order with the selections in the caller's order;    *)
(* a pair that failed keeps its position.                                  *)
(***************************************************************************)
MatchesPair(c, r, mc) ==
  /\ r.provider = mc.provider
  /\ r.model = mc.model
  /\ HasRecord(r) =>
       /\ runs[Val(r.id)].provider = mc.provider
       /\ runs[Val(r.id)].model = mc.model
       /\ runs[Val(r.id)].apiKeyId = mc.apiKeyId

C4_AllPairsInOrder ==
  \A p \in Procs :
    LET c == call[p] IN
    c.kind = "runTest" =>
      /\ Len(c.results) <= TotalPairs(c)
      /\ \A k \in 1..Len(c.results) : MatchesPair(c, c.results[k], PairConfig(c, k))
      /\ c.pc = "returned" =>
           /\ Val(c.outcome).value = c.results
           /\ Len(c.results) = TotalPairs(c)

C4_Witness ==
  \E p \in Procs :
    LET c == call[p] IN
    /\ c.kind = "runTest" /\ c.pc = "returned" /\ c.opts.batchCount = 2
    /\ Len(c.results) = 4
    /\ c.results[1].status = "completed"
    /\ ~HasRecord(c.results[2])
    /\ c.results[3].status = "failed" /\ HasRecord(c.results[3])

(***************************************************************************)
(* C5: an attempt whose credential is missing, disabled or owned by        *)
(* another user yields the result {id: '', status: failed, errorMessage:   *)
(* "API key not found or inactive"}; no RunRecord is created and no        *)
(* adapter call is made for it, and it does not abort the call: the next   *)
(* pair is attempted.                                                      *)
(***************************************************************************)
UsablePairs(c, n) ==
  {k \in 1..n : ~CredentialUnusable(c.opts.userId, PairConfig(c, k).apiKeyId)}

C5_MissingCredential ==
  /\ \A k \in 1..Len(runs) : ~CredentialUnusable(runs[k].userId, runs[k].apiKeyId)
  /\ \A p \in Procs :
       LET c == call[p]
           rs == ResultsOf(c)
       IN c.kind # "none" =>
            /\ \A k \in 1..Len(rs) :
                 CredentialUnusable(c.opts.userId, PairConfig(c, k).apiKeyId) =>
                   /\ rs[k].id = << >>
                   /\ rs[k].status = "failed"
                   /\ rs[k].errorMessage = Some(<< "API key not found or inactive" >>)
            /\ c.adapterCalls <= Cardinality(UsablePairs(c, Len(rs) + 1))
            /\ c.decrypts <= Cardinality(UsablePairs(c, Len(rs) + 1))
            /\ c.pc = "threw" =>
                 Val(c.outcome).error \in RateLimitErrors \cup {MSG_TEST_NOT_FOUND}
            /\ c.pc = "returned" => Len(rs) = TotalPairs(c)

C5_Witness ==
  \E p \in Procs :
    LET c == call[p] IN
    /\ c.kind = "runTest" /\ c.pc = "returned" /\ ~c.opts.isDryRun
    /\ Len(c.results) >= 2
    /\ ~HasRecord(c.results[1])
    /\ c.results[2].status = "completed"
    /\ Len(runs) = 1

(***************************************************************************)
(* C6: when the adapter call of an attempt raises, or the key fails to     *)
(* decrypt, or no adapter is registered for the provider, the error stays  *)
(* with that attempt: its record becomes failed and stores the message,    *)
(* a failed result with the same message is appended, the call itself does *)
(* not raise that error, and the later pairs are attempted.                *)
(***************************************************************************)
AttemptErrors == AdapterErrors \cup {MSG_DECRYPT, MSG_NO_PROVIDER}

C6_AdapterFailureIsolated ==
  \A p \in Procs :
    LET c == call[p]
        rs == ResultsOf(c)
    IN c.kind # "none" =>
         /\ \A k \in 1..Len(rs) :
              (rs[k].status = "failed" /\ HasRecord(rs[k])) =>
                /\ runs[Val(rs[k].id)].status = "failed"
                /\ IsSome(rs[k].errorMessage)
                /\ Val(rs[k].errorMessage) \in AttemptErrors
                /\ runs[Val(rs[k].id)].errorMessage = rs[k].errorMessage
         /\ c.pc = "failUpdate" =>
              /\ c.errorMessage \in AttemptErrors
              /\ runs[c.runId].status = "running"
         /\ c.pc = "threw" => Val(c.outcome).error \notin AttemptErrors
         /\ c.pc = "returned" => Len(rs) = TotalPairs(c)
         /\ \A k \in 1..Len(runs) :
              runs[k].status = "failed" => IsSome(runs[k].errorMessage)

C6_Witness ==
  \E p \in Procs :
    LET c == call[p] IN
    /\ c.kind = "runTest" /\ c.pc = "returned"
    /\ \E i, j, m \in 1..Len(c.results) :
         /\ i < j
         /\ c.results[i].status = "failed"
         /\ c.results[i].errorMessage = Some(<< "HTTP 500: upstream error" >>)
         /\ c.results[j].status = "completed"
         /\ c.results[m].errorMessage = Some(MSG_DECRYPT)

(***************************************************************************)
(* C7: when the admission check of runTest, or of a runAdHocPrompt that is *)
(* not a dry run, finds the user over the limit, the call raises "Rate     *)
(* limit exceeded ..." and has created no RunRecord, looked up and         *)
(* decrypted no credential, and made no adapter call.                      *)
(***************************************************************************)
C7_AdmissionDenied ==
  \A p \in Procs :
    LET c == call[p] IN
    DeniedAt(c, "admission") =>
      /\ c.pc = "threw"
      /\ ~Val(c.outcome).ok
      /\ Val(c.outcome).error = MSG_RATE_LIMIT
      /\ runs = << >>
      /\ c.results = << >>
      /\ c.keyLookups = 0
      /\ c.decrypts = 0
      /\ c.adapterCalls = 0

C7_Witness ==
  \E p \in Procs :
    /\ DeniedAt(call[p], "admission")
    /\ call[p].kind = "adhoc"
    /\ ~CredentialUnusable(call[p].opts.userId, CurrentConfig(call[p]).apiKeyId)

(***************************************************************************)
(* C8 (as stated): a runTest call with isDryRun = true is never rejected   *)
(* because of the user's rate counter.                                     *)
(***************************************************************************)
C8_DryRunNeverRateLimited ==
  \A p \in Procs :
    LET c == call[p] IN
    (c.kind = "runTest" /\ c.opts.isDryRun) =>
      ~(c.pc = "threw" /\ Val(c.outcome).error \in RateLimitErrors)

(***************************************************************************)
(* C9: for one user and one minute window, the k-th checkRateLimit call    *)
(* that reaches the store leaves the counter at k and returns allowed =    *)
(* (k <= 10), remaining = max(0, 10 - k); the first call of the next       *)
(* window starts again from 1.                                             *)
(***************************************************************************)
C9_KthCall ==
  \A u \in Users :
    /\ CountOf(rateLimit, u, now) = probe[u].calls
    /\ (IsSome(probe[u].last) /\ Val(probe[u].last).ok) =>
         /\ Val(probe[u].last).allowed = (probe[u].calls <= 10)
         /\ Val(probe[u].last).remaining = Max(0, 10 - probe[u].calls)

C9_Witness ==
  \E u \in Users :
    /\ now = 1
    /\ CountOf(rateLimit, u, 0) = 11
    /\ probe[u].calls = 1
    /\ probe[u].last = Some([ok |-> TRUE, allowed |-> TRUE, remaining |-> 9])

(***************************************************************************)
(* C10 (as stated): every attempted run increments the user's rate-window  *)
(* counter by exactly one, no attempt excluded.                            *)
(***************************************************************************)
\* process p attempts a run in this step: a pair of a runTest loop, or the
\* single run of runAdHocPrompt
Attempts(p) ==
  \/ call[p].pc = "loop" /\ call'[p] # call[p]
  \/ call[p].pc = "idle" /\ call'[p].kind = "adhoc"

\* the step asked the store for the counter and the store failed (the catch
\* block of checkRateLimit answers remaining = MAX_RUNS_PER_MINUTE)
StoreFailedIn(p) ==
  /\ ~call'[p].opts.isDryRun
  /\ Val(call'[p].check).remaining = MAX_RUNS_PER_MINUTE

\* the step raises by one the counter of the current window of the user p
\* acts for
CounterStepsByOne(p) ==
  CountOf(rateLimit', call'[p].opts.userId, now')
    = CountOf(rateLimit, call'[p].opts.userId, now) + 1

C10_EveryAttemptCounts ==
  [][\A p \in Procs :
       (Attempts(p) /\ ~StoreFailedIn(p)) => CounterStepsByOne(p)]_vars

(***************************************************************************)
(* C10 (amended): every attempted run of a call that is not a dry run      *)
(* increments the user's rate-window counter by exactly one, whether the   *)
(* attempt then succeeds, fails in the adapter, fails for a missing        *)
(* credential or is denied by the limiter, and touches no other counter;   *)
(* the attempts of a dry-run call leave the counters as they are.          *)
(***************************************************************************)
OtherRowsKept(p) ==
  \A key \in DOMAIN rateLimit' :
    key # <<call'[p].opts.userId, now>> =>
      key \in DOMAIN rateLimit /\ rateLimit'[key] = rateLimit[key]

C10_AttemptsCounted ==
  [][\A p \in Procs :
       Attempts(p) =>
         IF call'[p].opts.isDryRun \/ StoreFailedIn(p)
           THEN rateLimit' = rateLimit
           ELSE /\ CounterStepsByOne(p)
                /\ OtherRowsKept(p)]_vars

C10_Witness ==
  \E p \in Procs :
    LET c == call[p] IN
    /\ c.kind = "runTest" /\ ~c.opts.isDryRun /\ c.pc = "returned"
    /\ Len(c.results) = 4
    /\ CountOf(rateLimit, c.opts.userId, now) = 5
    /\ Val(c.check).remaining = 5
    /\ \E i, j, m \in 1..Len(c.results) :
         /\ ~HasRecord(c.results[i])
         /\ c.results[j].status = "completed"
         /\ c.results[m].status = "failed" /\ HasRecord(c.results[m])

(***************************************************************************)
(* C11: when the storage operation behind checkRateLimit fails, the check  *)
(* raises nothing, answers allowed = true and leaves the counters as they  *)
(* are; the runTest or runAdHocPrompt call that made the check goes on as  *)
(* an admitted one (it does not end with a rate-limit error).              *)
(***************************************************************************)
\* process p makes a rate check in this step: the admission check of runTest,
\* the admission check of a real runAdHocPrompt, the re-check of a real pair
ChecksRate(p) ==
  \/ call[p].pc = "idle" /\ call'[p].kind = "runTest"
  \/ call[p].pc = "idle" /\ call'[p].kind = "adhoc" /\ ~call'[p].opts.isDryRun
  \/ call[p].pc = "loop" /\ ~call[p].opts.isDryRun /\ call'[p] # call[p]

C11_FailOpen ==
  [][\A p \in Procs :
       (ChecksRate(p) /\ ~Val(call'[p].check).stored) =>
         /\ Val(call'[p].check).allowed
         /\ rateLimit' = rateLimit
         /\ call'[p].pc # "threw"
         /\ call'[p].pc \in {"fetchTest", "adhocKey", "create", "loop", "returned"}]_vars

C11_Witness ==
  \E p \in Procs :
    LET c == call[p] IN
    /\ c.kind = "runTest" /\ ~c.opts.isDryRun /\ c.pc = "returned"
    /\ ~Val(c.check).stored
    /\ CountOf(rateLimit, c.opts.userId, now) = 10
    /\ \E k \in 1..Len(c.results) : c.results[k].status = "completed"

(***************************************************************************)
(* C12: in every minute window and for every user, at most 10 adapter      *)
(* calls are started on an admission that checkRateLimit computed from the *)
(* stored count of that window (no storage failure), however the runTest,  *)
(* runAdHocPrompt and rerun requests of the user interleave.               *)
(***************************************************************************)
C12_AtMostTenAdmitted ==
  \A key \in DOMAIN admitted :
    /\ admitted[key] <= 10
    /\ admitted[key] <= CountOf(rateLimit, key[1], key[2])

C12_Witness ==
  /\ admitted[<<ConcUser, 0>>] = 10
  /\ CountOf(rateLimit, ConcUser, 0) > 10
  /\ \E p, q \in ConcProcs :
       /\ call[p].kind = "runTest" /\ IsSome(call[p].rerunOf)
       /\ call[p].pc = "threw" /\ Val(call[p].outcome).error \in RateLimitErrors
       /\ call[q].kind = "adhoc" /\ call[q].adapterCalls = 1

(***************************************************************************)
(* C13 (as stated): once a credential is disabled, no adapter call that    *)
(* starts afterwards uses it, however the toggle interleaves with the      *)
(* calls; in particular the later pairs of a batch whose earlier pairs ran *)
(* with the credential do not start an adapter call with it.               *)
(***************************************************************************)
\* process p starts the adapter call of its current pair in this step
StartsAdapterCall(p) == call[p].pc = "markRunning" /\ call'[p].pc = "adapter"

\* process p begins the run of a further pair of its batch in this step
BeginsLaterPair(p) ==
  call[p].pc = "loop" /\ Len(call[p].results) > 0 /\ call'[p].pc = "create"

C13_DisabledKeyUnused ==
  [][\A p \in DOMAIN call :
       (StartsAdapterCall(p) \/ BeginsLaterPair(p)) =>
         apiKeyActive[CurrentConfig(call[p]).apiKeyId]]_vars

\* the secret shares no character with the replacement text
ApartFromMarker(secret) ==
  \A i \in 1..Len(secret), j \in 1..Len(REDACTED) : secret[i] # REDACTED[j]

\* the result the call has just produced: the one runTest pushed last, or
\* the one runAdHocPrompt returned
LastResult(c) ==
  IF c.kind = "adhoc" THEN Val(c.outcome).value ELSE c.results[Len(c.results)]

Redacted(e) == e.fn = "redactApiKey" /\ IsSome(e.out)

\* C15: for every text and every secret of 8 or more characters the result of
\* redactApiKey(text, secret) contains no literal occurrence of the secret; for
\* a shorter or empty secret the result is the text unchanged.
C15_RedactLeavesNoSecret ==
  Redacted(eval) =>
    /\ Len(eval.apiKey) >= 8 => ~Includes(Val(eval.out), eval.apiKey)
    /\ Len(eval.apiKey) < 8 => Val(eval.out) = eval.text

\* the part of C15 about short secrets, on its own
C15_ShortSecretUnchanged ==
  (Redacted(eval) /\ Len(eval.apiKey) < 8) => Val(eval.out) = eval.text

\* a secret of 8 characters was replaced and comes back in the result
C15_SecretReappears ==
  /\ Redacted(eval)
  /\ Len(eval.apiKey) >= 8
  /\ Includes(eval.text, eval.apiKey)
  /\ Includes(Val(eval.out), REDACTED)
  /\ Includes(Val(eval.out), eval.apiKey)

\* C16: with APP_ENCRYPTION_KEY absent or of the wrong length the process
\* fails at startup: it never comes to serve requests, and so no encrypt or
\* decrypt call of a request is the first to find the key unusable.
C16_KeyCheckedAtStartup ==
  eval.fn = "process" =>
    /\ eval.phase = "serving" => validateEncryptionSetup(eval.envKey)
    /\ \A k \in 1..Len(eval.served) : eval.served[k].ok

\* a process without a usable key serves requests, each failing in
\* getEncryptionKey
C16_DeferredToFirstUse ==
  /\ eval.fn = "process" /\ eval.phase = "serving"
  /\ eval.envKey = None
  /\ Len(eval.served) = 2
  /\ ~eval.served[1].ok /\ ~eval.served[2].ok

\* the runTest call p is the rerun of an earlier record
IsRerun(p) == call[p].kind = "runTest" /\ IsSome(call[p].rerunOf)

OriginalRun(p) == runs[Val(call[p].rerunOf)]

\* the part of C17 about the options: the original run's test, its single
\* selection, batchCount 1 and isDryRun false
C17_RerunSelection ==
  \A p \in DOMAIN call :
    IsRerun(p) =>
      LET o == call[p].opts
          original == OriginalRun(p)
      IN /\ Some(o.testId) = original.testId
         /\ o.modelConfigs = << MC(original.provider, original.model, original.apiKeyId) >>
         /\ o.batchCount = 1
         /\ ~o.isDryRun

\* C17: rerunFromRun re-invokes runTest for the original run's test with the
\* original run's single selection, batchCount 1 and isDryRun false, and the
\* variables the rerun uses are the snapshot recorded on the original run, not
\* the test's current defaults.
C17_RerunUsesSnapshot ==
  /\ C17_RerunSelection
  /\ \A p \in DOMAIN call :
       (IsRerun(p) /\ IsSome(call[p].batchId)) =>
         /\ call[p].mergedVariables = OriginalRun(p).inputVariables
         /\ call[p].runId > 0 =>
              runs[call[p].runId].inputVariables = OriginalRun(p).inputVariables

\* a rerun of the record made with n = 42 has created its record with the
\* defaults of the test
C17_RerunUsesDefaults ==
  \E p \in DOMAIN call :
    /\ IsRerun(p) /\ call[p].runId > 0
    /\ OriginalRun(p).inputVariables # TestTable["t1"].variables
    /\ runs[call[p].runId].inputVariables = mergeVariables(TestTable["t1"].variables, << >>)
    /\ runs[call[p].runId].prompt # OriginalRun(p).prompt

\* the test named by the runTest call c has no row or is another user's
TestMissing(c) ==
  /\ c.kind = "runTest"
  /\ \/ c.opts.testId \notin DOMAIN TestTable
     \/ TestTable[c.opts.testId].userId # c.opts.userId

\* C18: a runTest call whose test id does not exist or belongs to another
\* user fails as a whole: no step of it creates or changes a RunRecord, it
\* makes no adapter call and collects no result, it never returns, and the
\* lookup of the test ends it with the error 'Test not found' (a call the
\* admission check refused has ended before the lookup, with that error).
C18_TestNotFoundFailsCall ==
  [][\A p \in DOMAIN call :
       (TestMissing(call'[p]) /\ call'[p] # call[p]) =>
         LET c == call'[p] IN
         /\ runs' = runs
         /\ c.results = << >> /\ c.adapterCalls = 0 /\ c.runId = 0
         /\ c.pc \in {"fetchTest", "threw"}
         /\ c.pc = "threw" =>
              /\ ~Val(c.outcome).ok
              /\ Val(c.outcome).value = << >>
              /\ IF DeniedAt(c, "admission") THEN Val(c.outcome).error = MSG_RATE_LIMIT
                 ELSE Val(c.outcome).error = MSG_TEST_NOT_FOUND
         /\ call[p].pc = "fetchTest" =>
              c.pc = "threw" /\ Val(c.outcome).error = MSG_TEST_NOT_FOUND]_vars

\* a call of u1 for the test of u2 ended with 'Test not found', nothing
\* created, nothing returned
C18_Witness ==
  \E p \in DOMAIN call :
    LET c == call[p] IN
    /\ c.kind = "runTest" /\ c.opts.userId = "u1" /\ c.opts.testId = "t2"
    /\ Len(c.opts.modelConfigs) = 2 /\ c.opts.batchCount = 2
    /\ c.pc = "threw" /\ Val(c.outcome).error = MSG_TEST_NOT_FOUND
    /\ c.results = << >> /\ c.adapterCalls = 0 /\ runs = << >>

\* the replies that are no JSON text and hold none, and the schema texts that
\* are no JSON text or no schema
MalformedOutputs == {JSON_UNQUOTED, NOT_JSON}
MalformedSchemas == {SCHEMA_CUT_SHORT, SCHEMA_BAD_TYPE}

\* C19: validation never fails a run.  The step that follows a successful
\* adapter call stores the run as completed and returns a completed result,
\* whatever the validation says; with a JSON schema configured, a reply that is
\* not JSON or a schema that is malformed gives passed = false with a note;
\* and passed is null exactly when the test configures neither
\* expectedContains nor jsonSchema.
C19_ValidationNeverFailsRun ==
  [][\A p \in DOMAIN call :
       (call[p].pc = "completeUpdate" /\ call'[p] # call[p]) =>
         LET c == call[p]
             test == TestTable[c.opts.testId]
             output == Val(c.response).output
             run == runs'[c.runId]
             result == LastResult(call'[p])
         IN /\ run.status = "completed" /\ result.status = "completed"
            /\ run.output = Some(output)
            /\ result.passed = run.passed
            /\ (run.passed = None) <=> (test.expectedContains = None /\ test.jsonSchema = None)
            /\ (run.validationNotes = None) <=> (run.passed = None)
            /\ (/\ test.jsonSchema # None
                /\ output \in MalformedOutputs \/ Val(test.jsonSchema) \in MalformedSchemas) =>
                 /\ run.passed = Some(FALSE)
                 /\ Len(Val(run.validationNotes)) > 0]_vars

\* a run of the test with the object schema completed on a reply that is not
\* JSON: the validation failed with the note of the catch block
C19_Witness ==
  \E p \in DOMAIN call :
    LET c == call[p] IN
    /\ c.kind = "runTest" /\ c.pc = "returned" /\ c.opts.testId = "t3"
    /\ Len(c.results) = 1
    /\ c.results[1].status = "completed" /\ c.results[1].passed = Some(FALSE)
    /\ runs[1].status = "completed" /\ runs[1].output = Some(JSON_UNQUOTED)
    /\ runs[1].passed = Some(FALSE)
    /\ runs[1].validationNotes = Some(<< "JSON validation error: ", "Unexpected token" >>)

Costed(e) == e.fn = "calculateCost" /\ IsSome(e.out)

OwnEntry(provider, model) ==
  provider \in DOMAIN PROVIDER_CONFIGS /\ model \in DOMAIN PROVIDER_CONFIGS[provider].models

\* inputTokens/1e6*inputPer1M + outputTokens/1e6*outputPer1M, in units of
\* 1e-10 USD, the rates being in units of 1e-4 USD
RatedCost(provider, model, inputTokens, outputTokens) ==
  inputTokens * PROVIDER_CONFIGS[provider].models[model].inputPer1M
    + outputTokens * PROVIDER_CONFIGS[provider].models[model].outputPer1M

\* C20: calculateCost returns a cost for every provider, model and token
\* counts without failing; isEstimated is false exactly when the pair has its
\* own price-table entry, and then the cost is the rated cost of that entry;
\* an unknown model under a known provider costs what the provider's default
\* model costs, and an unknown provider costs 10 per million tokens, both
\* with isEstimated true.
C20_CostLadder ==
  Costed(eval) =>
    LET r == Val(eval.out)
        own == OwnEntry(eval.provider, eval.model)
    IN /\ DOMAIN r = {"cost", "isEstimated"}
       /\ r.isEstimated = ~own
       /\ r.cost \in Nat
       /\ own => r.cost = RatedCost(eval.provider, eval.model, eval.inputTokens,
                                     eval.outputTokens)
       /\ (eval.provider \in DOMAIN PROVIDER_CONFIGS /\ ~own) =>
            r.cost = RatedCost(eval.provider, PROVIDER_CONFIGS[eval.provider].defaultModel,
                               eval.inputTokens, eval.outputTokens)
       /\ eval.provider \notin DOMAIN PROVIDER_CONFIGS =>
            r.cost = (eval.inputTokens + eval.outputTokens) * 100000

\* C20 for the names that are no member of Object.prototype
C20_CostLadderOrdinaryNames ==
  (eval.fn = "calculateCost"
     /\ eval.provider \notin ObjectPrototype /\ eval.model \notin ObjectPrototype) =>
    C20_CostLadder

\* the call for the provider named constructor threw
C20_CostThrows ==
  /\ Costed(eval)
  /\ eval.provider = "constructor"
  /\ Val(eval.out) = TypeErrorThrown

\* the call for the model named toString returned NaN as an exact cost
C20_CostIsNaN ==
  /\ Costed(eval)
  /\ eval.provider = "openai" /\ eval.model = "toString"
  /\ Val(eval.out) = [cost |-> NaN, isEstimated |-> FALSE]

(***************************************************************************)
(* C21 (as stated): a dry-run RunRecord never passes through the running   *)
(* status; it goes from pending directly to dry_run, so that no observer   *)
(* of the store sees a dry-run record in status running.                   *)
(***************************************************************************)
C21_DryRunNeverRunning ==
  \A k \in 1..Len(runs) : runs[k].isDryRun => runs[k].status # "running"

\* what the code does: the record of a dry run is stored as running between
\* its creation and the update that stores the estimate
C21_DryRunSeenRunning ==
  \E p \in DOMAIN call :
    /\ call[p].pc = "dryUpdate"
    /\ runs[call[p].runId].isDryRun
    /\ runs[call[p].runId].status = "running"

(***************************************************************************)
(* C22: for any interleaving of concurrent checkRateLimit calls of one     *)
(* user in one minute bucket, the counter of the bucket is what earlier    *)
(* calls left plus the number of the calls whose upsert the store has      *)
(* executed (no update is lost, whether the row is created or              *)
(* incremented), and the calls that returned allowed = true from a stored  *)
(* count, the earlier ones included, are MAX_RUNS_PER_MINUTE at most: they *)
(* are exactly those that found room under the limit.                      *)
(***************************************************************************)
StoredCalls(userId, windowKey) ==
  { p \in LimiterProcs :
      /\ eval.calls[p].pc = "returned" /\ eval.calls[p].stored
      /\ eval.calls[p].userId = userId /\ eval.calls[p].windowKey = windowKey }

AllowedCalls(userId, windowKey) ==
  { p \in StoredCalls(userId, windowKey) : Val(eval.calls[p].result).allowed }

C22_NoLostUpdate ==
  eval.fn = "checkRateLimit" =>
    \A u \in Users, w \in Minutes :
      LET before == CountOf(eval.before, u, w)
          k == Cardinality(StoredCalls(u, w))
          room == Max(0, MAX_RUNS_PER_MINUTE - before)
      IN /\ CountOf(rateLimit, u, w) = before + k
         /\ Cardinality(AllowedCalls(u, w)) = (IF k <= room THEN k ELSE room)
         /\ before + Cardinality(AllowedCalls(u, w)) <= MAX_RUNS_PER_MINUTE
            \/ before > MAX_RUNS_PER_MINUTE

\* every call was made by one user in one bucket whose counter stood two short
\* of the limit, all of them have returned, and the last to be executed was
\* denied
C22_Witness ==
  /\ eval.fn = "checkRateLimit"
  /\ CountOf(eval.before, "u1", 0) = MAX_RUNS_PER_MINUTE - 2
  /\ StoredCalls("u1", 0) = LimiterProcs
  /\ Cardinality(AllowedCalls("u1", 0)) = 2
  /\ CountOf(rateLimit, "u1", 0) = MAX_RUNS_PER_MINUTE + 1

(***************************************************************************)
(* C23: within one runTest call no two adapter calls overlap.  At every    *)
(* moment the only record of the batch that is not in a terminal status is *)
(* the record of the pair being attempted; when the adapter call of a pair *)
(* is in flight and when the rate limit is re-checked for a pair, every    *)
(* earlier pair has left its result and its record is terminal.            *)
(***************************************************************************)
BatchRecords(c) == {k \in 1..Len(runs) : runs[k].batchId = c.batchId}

\* the number of pairs that come before the current one in the iteration
PairsBefore(c) == c.i * Len(c.opts.modelConfigs) + c.j - 1

EarlierPairsFinished(c) ==
  /\ Len(c.results) = PairsBefore(c)
  /\ \A k \in BatchRecords(c) : k # c.runId => runs[k].status \in Terminal
  /\ \A n \in 1..Len(c.results) :
       HasRecord(c.results[n]) =>
         /\ Val(c.results[n].id) \in BatchRecords(c)
         /\ runs[Val(c.results[n].id)].status = c.results[n].status

OneAttemptAtATime ==
  \A p \in DOMAIN call :
    LET c == call[p] IN
    (c.kind = "runTest" /\ IsSome(c.batchId)) =>
      /\ \A k \in BatchRecords(c) : runs[k].status \notin Terminal => k = c.runId
      /\ c.pc = "adapter" => EarlierPairsFinished(c) /\ runs[c.runId].status = "running"
      /\ c.pc = "loop" => EarlierPairsFinished(c) /\ c.runId = 0

\* a step in which the loop of a call re-checks the rate limit
RecheckStep(p) ==
  /\ call[p].kind = "runTest"
  /\ IsSome(call'[p].check) /\ Val(call'[p].check).at = "recheck"
  /\ call'[p].check # call[p].check \/ rateLimit' # rateLimit

RecheckAfterPreviousPair ==
  \A p \in DOMAIN call :
    RecheckStep(p) =>
      /\ call[p].pc = "loop"
      /\ EarlierPairsFinished(call[p])
      /\ \A k \in BatchRecords(call[p]) : runs[k].status \in Terminal

C23_NoOverlap == []OneAttemptAtATime /\ [][RecheckAfterPreviousPair]_vars

\* the adapter call of a second pair is in flight after the adapter call of
\* the first pair was rejected and its record was stored as failed
C23_Witness ==
  \E p \in DOMAIN call :
    /\ call[p].kind = "runTest" /\ call[p].pc = "adapter"
    /\ PairsBefore(call[p]) >= 1
    /\ \E n \in 1..Len(call[p].results) :
         /\ HasRecord(call[p].results[n])
         /\ call[p].results[n].errorMessage \in {Some(e) : e \in AdapterErrors}
         /\ runs[Val(call[p].results[n].id)].status = "failed"

(***************************************************************************)
(* C24 (as stated): the batchIndex stored on each RunRecord of a runTest   *)
(* call equals the 0-based position of its attempt within the batch, also  *)
(* in batches in which some pairs have a missing credential.               *)
(***************************************************************************)
C24_IndexIsAttemptPosition ==
  \A p \in DOMAIN call :
    LET c == call[p] IN
    c.kind = "runTest" =>
      \A n \in 1..Len(c.results) :
        HasRecord(c.results[n]) => runs[Val(c.results[n].id)].batchIndex = Some(n - 1)

(***************************************************************************)
(* C24 (amended): within one runTest call batchIndex starts at 0, strictly *)
(* increases in nested-iteration order over the records the call creates   *)
(* and is not reset between repetitions; the batchIndex stored on a        *)
(* RunRecord is the number of records the call created before it, its      *)
(* 0-based position among the records of the batch.  A pair with a missing *)
(* credential creates no record and takes no index, so the index is the    *)
(* position of the attempt only when no earlier pair lacked its            *)
(* credential.                                                             *)
(***************************************************************************)
RecordsAmong(results, n) == Cardinality({m \in 1..n : HasRecord(results[m])})

C24_IndexIsRecordPosition ==
  \A p \in DOMAIN call :
    LET c == call[p] IN
    c.kind = "runTest" =>
      /\ \A n \in 1..Len(c.results) :
           HasRecord(c.results[n]) =>
             /\ runs[Val(c.results[n].id)].batchIndex = Some(RecordsAmong(c.results, n - 1))
             /\ RecordsAmong(c.results, n - 1) = n - 1 =>
                  runs[Val(c.results[n].id)].batchIndex = Some(n - 1)
      /\ \A m, n \in 1..Len(c.results) :
           (m < n /\ HasRecord(c.results[m]) /\ HasRecord(c.results[n])) =>
             Val(runs[Val(c.results[m].id)].batchIndex) < Val(runs[Val(c.results[n].id)].batchIndex)
      /\ c.runId # 0 =>
           runs[c.runId].batchIndex = Some(RecordsAmong(c.results, Len(c.results)))
      /\ c.batchIndex = RecordsAmong(c.results, Len(c.results)) + (IF c.runId # 0 THEN 1 ELSE 0)

\* a batch of two repetitions over a selection without credential followed by
\* one with a credential has returned: its two records carry the indexes 0
\* and 1 and are the results at positions 1 and 3 (0-based)
C24_Witness ==
  \E p \in DOMAIN call :
    LET c == call[p] IN
    /\ c.kind = "runTest" /\ c.pc = "returned"
    /\ Len(c.results) = 4
    /\ ~HasRecord(c.results[1]) /\ ~HasRecord(c.results[3])
    /\ HasRecord(c.results[2]) /\ HasRecord(c.results[4])
    /\ runs[Val(c.results[2].id)].batchIndex = Some(0)
    /\ runs[Val(c.results[4].id)].batchIndex = Some(1)

(***************************************************************************)
(* C25 (as stated): substituting twice gives what substituting once gives  *)
(* whenever no key of the variables is the name of a placeholder left in   *)
(* the first result, and the placeholders whose name is not a key of the   *)
(* variables are left verbatim (a template none of whose placeholders      *)
(* bears the name of a key comes back as it was).                          *)
(***************************************************************************)
RECURSIVE NameEnd(_, _)
NameEnd(s, i) ==
  IF i <= Len(s) /\ s[i] \notin {" ", "{", "}"} THEN NameEnd(s, i + 1) ELSE i

\* the name of the placeholder that opens at position i, if one does
PlaceholderAt(s, i) ==
  IF ~HasAt(s, i, <<"{", "{">>) THEN None
  ELSE LET a == SkipWs(s, i + 2)
           e == NameEnd(s, a)
       IN IF e > a /\ HasAt(s, SkipWs(s, e), <<"}", "}">>) THEN Some(SubSeq(s, a, e - 1))
          ELSE None

PlaceholderNames(s) ==
  { Val(PlaceholderAt(s, i)) : i \in {i \in 1..Len(s) : IsSome(PlaceholderAt(s, i))} }

SubstitutedTwice(e) == e.fn = "substituteVariables" /\ IsSome(e.twice)

NoKeyNames(e, text) == Keys(e.variables) \cap PlaceholderNames(text) = {}

C25_SubstituteIdempotent ==
  SubstitutedTwice(eval) =>
    /\ NoKeyNames(eval, Val(eval.once)) => eval.twice = eval.once
    /\ NoKeyNames(eval, eval.template) => Val(eval.once) = eval.template

\* the claim restricted to keys and values made of letters, digits and
\* braces: the characters that are neither regular-expression syntax nor
\* replacement patterns
PlainVariables(e) ==
  \A n \in 1..Len(e.variables) :
    /\ \A k \in 1..Len(e.variables[n][1]) : e.variables[n][1][k] # "."
    /\ \A k \in 1..Len(e.variables[n][2]) : e.variables[n][2][k] # "$"

C25_IdempotentPlainVariables ==
  (SubstitutedTwice(eval) /\ PlainVariables(eval)) =>
    /\ NoKeyNames(eval, Val(eval.once)) => eval.twice = eval.once
    /\ NoKeyNames(eval, eval.template) => Val(eval.once) = eval.template

\* the placeholder a is replaced although the only key is "."
C25_UnnamedPlaceholderReplaced ==
  /\ SubstitutedTwice(eval)
  /\ eval.template = <<"{", "{", "a", "}", "}">>
  /\ eval.variables = << << <<".">>, <<"x">> >> >>
  /\ Val(eval.once) = <<"x">>

\* the second application changes the text although the placeholder left by
\* the first one bears the name of no key
C25_SecondPassDiffers ==
  /\ SubstitutedTwice(eval)
  /\ NoKeyNames(eval, Val(eval.once))
  /\ eval.twice # eval.once

(***************************************************************************)
(* C26 (as stated): on every completed RunRecord tokensEstimated is true   *)
(* whenever inputTokens or outputTokens was back-filled by the length      *)
(* heuristic because the adapter returned null for it, and false only when *)
(* both counts came from the provider; the back-filled values are          *)
(* ceil(len(prompt)/4) and ceil(len(output)/4), and totalTokens is         *)
(* inputTokens + outputTokens.                                             *)
(***************************************************************************)
\* the step that stores the completed run of the call
StoresCompleted(p) == call[p].pc = "completeUpdate" /\ call'[p].pc # "completeUpdate"

CeilQuarter(n) == (n + 3) \div 4

BackFilled(response) == response.inputTokens = None \/ response.outputTokens = None

TokenCountsStored(response, prompt, run) ==
  /\ run.status = "completed"
  /\ run.inputTokens = (IF response.inputTokens = None THEN Some(CeilQuarter(Len(prompt)))
                        ELSE response.inputTokens)
  /\ run.outputTokens = (IF response.outputTokens = None
                           THEN Some(CeilQuarter(Len(response.output)))
                         ELSE response.outputTokens)
  /\ run.totalTokens = Some(Val(run.inputTokens) + Val(run.outputTokens))

TokenFlagTruthful(response, run) ==
  /\ BackFilled(response) => run.tokensEstimated = Some(TRUE)
  /\ run.tokensEstimated = Some(FALSE) => ~BackFilled(response)

C26_TokensEstimatedFlag ==
  [][\A p \in DOMAIN call :
       StoresCompleted(p) =>
         LET response == Val(call[p].response)
             run == runs'[call[p].runId]
         IN /\ TokenCountsStored(response, call[p].prompt, run)
            /\ TokenFlagTruthful(response, run)]_vars

\* what holds of the code: the counts and their sum are stored as claimed,
\* and the flag is what the adapter reported or true when inputTokens was null
C26_TokenCounts ==
  [][\A p \in DOMAIN call :
       StoresCompleted(p) =>
         LET response == Val(call[p].response)
             run == runs'[call[p].runId]
         IN /\ TokenCountsStored(response, call[p].prompt, run)
            /\ run.tokensEstimated =
                 Some(response.tokensEstimated \/ response.inputTokens = None)]_vars

\* a completed record whose outputTokens is the estimate of its output while
\* its inputTokens came from the provider, flagged as not estimated
C26_EstimateNotFlagged ==
  \E k \in 1..Len(runs) :
    /\ runs[k].status = "completed"
    /\ runs[k].prompt = UsagePrompt
    /\ runs[k].inputTokens = Some(9)
    /\ runs[k].output = Some(<<"n", "o", "p", "e", "!">>)
    /\ runs[k].outputTokens = Some(2)
    /\ runs[k].tokensEstimated = Some(FALSE)

(***************************************************************************)
(* C27 (as stated): a runTest call that has ended has returned or has      *)
(* raised a rate-limit error.                                              *)
(***************************************************************************)
Ended(c) == c.pc \in {"returned", "threw"}

C27_EndsByReturnOrRateLimit ==
  \A p \in DOMAIN call :
    LET c == call[p] IN
    (c.kind = "runTest" /\ Ended(c)) =>
      \/ c.pc = "returned"
      \/ Val(c.outcome).error \in RateLimitErrors

(***************************************************************************)
(* C27 (amended): every await resolving, every runTest call terminates. It *)
(* returns, or raises a rate-limit error (at admission, or at the first    *)
(* re-check that is denied), or raises another error: before the loop      *)
(* "Test not found" or a SyntaxError (the stored variables are not JSON, a *)
(* key is no pattern), and inside the loop of a dry run the TypeError of   *)
(* calculateCost.  It makes at most batchCount x |modelConfigs| adapter    *)
(* calls, and each pair is attempted at most once: a failed adapter call   *)
(* is not retried.                                                         *)
(***************************************************************************)
\* the attempt of the current pair is under way
InAttempt(c) == c.pc \in {"create", "markRunning", "adapter", "dryUpdate", "completeUpdate", "failUpdate"}

EndsAsDescribed(c) ==
  Ended(c) =>
    \/ c.pc = "returned" /\ Len(c.results) = TotalPairs(c)
    \/ /\ c.pc = "threw"
       /\ \/ Val(c.outcome).error = MSG_RATE_LIMIT /\ Val(c.check).at = "admission"
          \/ Val(c.outcome).error = MSG_RATE_LIMIT_AFTER /\ Val(c.check).at = "recheck"
          \/ /\ Val(c.outcome).error \in {MSG_TEST_NOT_FOUND, MSG_SYNTAX_ERROR, MSG_INVALID_REGEX}
             /\ c.results = << >> /\ c.keyLookups = 0
          \/ /\ Val(c.outcome).error = MSG_TYPE_ERROR
             /\ c.opts.isDryRun
             /\ CurrentConfig(c).provider \in ObjectPrototype

AttemptedOnce(c) ==
  /\ c.adapterCalls <= TotalPairs(c)
  /\ c.adapterCalls <= Len(c.results) + 1
  /\ c.pc = "adapter" => c.adapterCalls <= PairsBefore(c) + 1
  /\ Ended(c) \/ c.pc = "loop" => c.adapterCalls <= Len(c.results)
  /\ Len(c.results) <= TotalPairs(c)
  /\ (c.pc = "loop" \/ InAttempt(c)) => Len(c.results) = PairsBefore(c)
  /\ Len(runs) <= Len(c.results) + 1

BoundedAttempts ==
  \A p \in DOMAIN call :
    call[p].kind = "runTest" => EndsAsDescribed(call[p]) /\ AttemptedOnce(call[p])

C27_Terminates ==
  /\ []BoundedAttempts
  /\ \A p \in SoloProcs : (call[p].kind = "runTest") ~> Ended(call[p])

\* a call of two pairs returned after the adapter call of its first pair had
\* failed: it made two adapter calls, one for each pair
C27_Witness ==
  \E p \in DOMAIN call :
    LET c == call[p] IN
    /\ c.kind = "runTest" /\ c.pc = "returned"
    /\ TotalPairs(c) = 2 /\ c.adapterCalls = 2
    /\ c.results[1].errorMessage \in {Some(e) : e \in AdapterErrors}
    /\ c.results[2].status = "completed"

(***************************************************************************)
(* C28: every adapter call made by runTest or runAdHocPrompt for a user    *)
(* uses a credential that the user owns and that was active when the call  *)
(* looked it up; a selection that names a key of another user is treated   *)
(* as a missing credential: it yields the failed result without record,    *)
(* and the key is never decrypted.                                         *)
(***************************************************************************)
\* the step in which the key query of the call resolves
LooksUpKeys(p) == call'[p].keyLookups = call[p].keyLookups + 1

\* the step in which the call decrypts the key of its current selection
DecryptsKey(p) == call'[p].decrypts = call[p].decrypts + 1

OwnKey(userId, apiKeyId) == apiKeyId \in KeyIds /\ KeyOwner[apiKeyId] = userId

CredentialStep(p) ==
  LET c == call[p]
      apiKeyId == CurrentConfig(c).apiKeyId
  IN /\ LooksUpKeys(p) =>
          \A k \in call'[p].apiKeyMap : OwnKey(c.opts.userId, k) /\ apiKeyActive[k]
     /\ (DecryptsKey(p) \/ StartsAdapterCall(p)) =>
          /\ OwnKey(c.opts.userId, apiKeyId)
          /\ apiKeyId \in c.apiKeyMap
          /\ c.keyLookups = 1

ForeignKeyIsMissing ==
  \A p \in DOMAIN call :
    LET c == call[p] IN
    /\ \A n \in 1..Len(ResultsOf(c)) :
         ~OwnKey(c.opts.userId, PairConfig(c, n).apiKeyId) =>
           ResultsOf(c)[n] = FailedNoRecord(PairConfig(c, n))
    /\ (\A n \in 1..Len(c.opts.modelConfigs) :
          ~OwnKey(c.opts.userId, c.opts.modelConfigs[n].apiKeyId)) =>
         c.decrypts = 0 /\ c.adapterCalls = 0

C28_OwnActiveCredential ==
  /\ []ForeignKeyIsMissing
  /\ [][\A p \in DOMAIN call : CredentialStep(p)]_vars

\* user u2 asked for a real run with the key k1 of user u1, which is active:
\* the call returned the failed result without record and decrypted nothing
C28_Witness ==
  \E p \in DOMAIN call :
    LET c == call[p] IN
    /\ c.pc = "returned" /\ c.opts.userId = "u2" /\ ~c.opts.isDryRun
    /\ \A n \in 1..Len(c.opts.modelConfigs) : c.opts.modelConfigs[n].apiKeyId = "k1"
    /\ apiKeyActive["k1"] /\ KeyOwner["k1"] = "u1"
    /\ Len(ResultsOf(c)) >= 1
    /\ ResultsOf(c)[1] = FailedNoRecord(c.opts.modelConfigs[1])
    /\ c.decrypts = 0 /\ c.keyLookups = 1

(***************************************************************************)
(* C29: a runTest call that is no dry run checks the rate limit once at    *)
(* admission and once for every pair it attempts, and every check whose    *)
(* upsert reaches the store adds one to a counter of the user.  When every *)
(* check of the call reached the store within the minute the call started  *)
(* in, and the bucket of that minute was empty at the start, the counter   *)
(* stands at the number of checks made: the call executes at most          *)
(* MAX_RUNS_PER_MINUTE - 1 = 9 pairs, the re-check of the tenth pair is    *)
(* denied, a call of n <= 9 pairs that returned has counted n + 1, and a   *)
(* rerun, which has one selection, has counted 2.                          *)
(***************************************************************************)
\* the checkRateLimit calls the call has made so far
ChecksMade(c) ==
  IF c.pc = "idle" \/ c.kind # "runTest" THEN 0
  ELSE 1 + PairsBefore(c) + (IF InAttempt(c) \/ DeniedAt(c, "recheck") THEN 1 ELSE 0)

\* the pairs the call has gone into after an allowed re-check
PairsExecuted(c) == Len(c.results) + (IF InAttempt(c) THEN 1 ELSE 0)

\* the counter of the minute the call started in, and all counters together
CounterNow == CountOf(rateLimit, ConcUser, 0)

CounterTotal == SumCounts(rateLimit, DOMAIN rateLimit)

\* every check of the call so far reached the store in the starting minute
AllChecksCounted(c) == CounterNow = ChecksMade(c)

QuotaOfCall(c) ==
  /\ CounterTotal <= ChecksMade(c)
  /\ AllChecksCounted(c) =>
       /\ PairsExecuted(c) <= MAX_RUNS_PER_MINUTE - 1
       /\ DeniedAt(c, "recheck") <=> CounterNow = MAX_RUNS_PER_MINUTE + 1
       /\ ~DeniedAt(c, "admission")
       /\ (c.kind = "runTest" /\ c.pc = "returned") =>
            /\ CounterNow = TotalPairs(c) + 1
            /\ TotalPairs(c) <= MAX_RUNS_PER_MINUTE - 1
       /\ (c.kind = "runTest" /\ IsSome(c.rerunOf) /\ c.pc = "returned") => CounterNow = 2
       /\ (c.kind = "runTest" /\ c.pc = "threw") =>
            /\ PairsExecuted(c) = MAX_RUNS_PER_MINUTE - 1
            /\ TotalPairs(c) > MAX_RUNS_PER_MINUTE - 1

CounterFollowsChecks(p) ==
  LET made == ChecksMade(call'[p]) - ChecksMade(call[p])
      counted == SumCounts(rateLimit', DOMAIN rateLimit') - CounterTotal
  IN /\ made \in {0, 1}
     /\ counted = (IF made = 1 /\ Val(call'[p].check).stored THEN 1 ELSE 0)

C29_ChecksCounted ==
  /\ [](\A p \in DOMAIN call : ~call[p].opts.isDryRun => QuotaOfCall(call[p]))
  /\ [][\A p \in DOMAIN call : CounterFollowsChecks(p)]_vars

\* a batch of ten repetitions started on the empty bucket was stopped by the
\* re-check of its tenth pair: nine pairs were executed and the counter is 11
C29_Witness ==
  \E p \in DOMAIN call :
    LET c == call[p] IN
    /\ c.kind = "runTest" /\ c.pc = "threw"
    /\ TotalPairs(c) = MAX_BATCH_COUNT
    /\ DeniedAt(c, "recheck")
    /\ Len(c.results) = MAX_RUNS_PER_MINUTE - 1
    /\ CounterNow = MAX_RUNS_PER_MINUTE + 1
    /\ AllChecksCounted(c)

\* a rerun returned and the counter stands at 2
C29_RerunCostsTwo ==
  \E p \in DOMAIN call :
    LET c == call[p] IN
    /\ c.kind = "runTest" /\ IsSome(c.rerunOf) /\ c.pc = "returned"
    /\ CounterNow = 2

\* the statement without the two provisos: no call started on an empty bucket
\* goes into more than nine pairs, and a call that returned has counted n + 1
C29_AtMostNinePairs ==
  \A p \in DOMAIN call :
    LET c == call[p] IN
    (c.pc # "idle" /\ c.kind = "runTest" /\ ~c.opts.isDryRun) =>
      /\ PairsExecuted(c) <= MAX_RUNS_PER_MINUTE - 1
      /\ c.pc = "returned" => CounterTotal = TotalPairs(c) + 1

(***************************************************************************)
(* C30: when a runTest or runAdHocPrompt call has finished by returning    *)
(* or by raising a rate-limit error, every run record the call created is  *)
(* completed, failed or dry_run: none is pending or running.  A call the   *)
(* re-check stopped has created records for earlier pairs only: the step   *)
(* that raises the error creates none, and the pair it denied has none.    *)
(***************************************************************************)
\* the records a call created: those of its batch, or the one of an ad-hoc call
CreatedBy(c) ==
  IF c.kind = "runTest" THEN (IF IsSome(c.batchId) THEN BatchRecords(c) ELSE {})
  ELSE IF c.kind = "adhoc" /\ c.runId # 0 THEN {c.runId}
  ELSE {}

FinishedAsDescribed(c) ==
  /\ c.kind \in {"runTest", "adhoc"}
  /\ \/ c.pc = "returned"
     \/ c.pc = "threw" /\ Val(c.outcome).error \in RateLimitErrors

RecordsTerminal(c) == \A k \in CreatedBy(c) : runs[k].status \in Terminal

\* the pair the re-check denied has no record
DeniedPairHasNoRecord(c) ==
  DeniedAt(c, "recheck") =>
    /\ Cardinality(CreatedBy(c)) = RecordsAmong(c.results, Len(c.results))
    /\ Len(c.results) = PairsBefore(c)
    /\ \A k \in CreatedBy(c) : \E n \in 1..Len(c.results) : c.results[n].id = IdOf(k)

\* the step in which a call raises a rate-limit error leaves the records alone
AbortCreatesNothing(p) ==
  (call'[p].pc = "threw" /\ call[p].pc # "threw"
     /\ Val(call'[p].outcome).error \in RateLimitErrors) => runs' = runs

C30_FinishedRecordsTerminal ==
  /\ [](\A p \in DOMAIN call :
          FinishedAsDescribed(call[p]) =>
            RecordsTerminal(call[p]) /\ DeniedPairHasNoRecord(call[p]))
  /\ [][\A p \in DOMAIN call : AbortCreatesNothing(p)]_vars

\* a batch was stopped by the re-check of its second pair after its first
\* pair left a record, which is completed or failed
C30_Witness ==
  \E p \in DOMAIN call :
    LET c == call[p] IN
    /\ c.kind = "runTest" /\ c.pc = "threw" /\ DeniedAt(c, "recheck")
    /\ Cardinality(CreatedBy(c)) = 1
    /\ \A k \in CreatedBy(c) : runs[k].status \in {"completed", "failed"}

\* a dry run returned with its record in dry_run
C30_DryRunReturned ==
  \E p \in DOMAIN call :
    LET c == call[p] IN
    /\ c.pc = "returned" /\ c.opts.isDryRun
    /\ \E k \in CreatedBy(c) : runs[k].status = "dry_run"

\* outside the two ways of finishing: a dry run that ended with the TypeError
\* of calculateCost has left its record running
C30_TypeErrorLeavesRunning ==
  \E p \in DOMAIN call :
    LET c == call[p] IN
    /\ c.pc = "threw" /\ Val(c.outcome).error = MSG_TYPE_ERROR
    /\ \E k \in CreatedBy(c) : runs[k].status = "running"

====
